---------------------------- MODULE Spec2Model ----------------------------
(***************************************************************************)
(* A model of the line_drawing crate's traversal iterators.               *)
(*                                                                         *)
(* Every iterator struct is a record with the struct's fields, every       *)
(* `new` is an operator building that record, and every `next` is an       *)
(* operator from the record to the pair (updated record, returned Option). *)
(* An Option is a sequence: None is << >> and Some(p) is << p >>.          *)
(*                                                                         *)
(* The state is a caller that constructs one traversal (`line`) from       *)
(* (`start`, `end`), pulls it with next() until it returns None, and       *)
(* then does the same with a second traversal (`other`) the first one is   *)
(* compared with (the swapped arguments, or another algorithm).            *)
(***************************************************************************)
EXTENDS Integers, Sequences, FiniteSets, TLC

VARIABLES
    start,   \* first constructor argument (a point or a voxel)
    end,     \* second constructor argument
    origin,  \* the VoxelOrigin argument of WalkVoxels::new ("None" otherwise)
    unit,    \* WalkVoxels: continuous coordinates are start[i] / unit
    line,    \* the traversal under test and what it has returned so far
    other    \* the traversal it is compared with

vars == <<start, end, origin, unit, line, other>>

(***************************************************************************)
(* Bounds of the checked input sets.                                       *)
(***************************************************************************)
\* 2D points have both coordinates in -MaxCoord .. MaxCoord.
MaxCoord == 3

\* Bresenham3d: start voxels have coordinates in 0 .. MaxStart3 and end
\* voxels in -MaxEnd3 .. MaxEnd3.
MaxStart3 == 1

MaxEnd3 == 3

\* WalkVoxels: coordinates are numerator / Denom, with start numerators in
\* 0 .. MaxStartV and end numerators in -MaxEndV .. MaxEndV.
Denom == 2

MaxStartV == 2

MaxEndV == 4

\* XiaolinWu: the coordinates are n / Denom for |n| <= MaxWu.
MaxWu == 3

\* Steps: the inner sequence has at most MaxInner items.
MaxInner == 3

\* BresenhamCircle and BresenhamEllipse: the center has both coordinates in
\* -MaxCenter .. MaxCenter, the radii are in 0 .. MaxRadius, and an ellipse
\* is followed for at most MaxEmitted points.
MaxCenter == 1

MaxRadius == 4

MaxEmitted == 80

\* An exhausted traversal is called MaxAfter more times.
MaxAfter == 2

\* Bresenham3d over a signed integer type T of Bits bits.
Bits == 4

(***************************************************************************)
(* Numeric helpers (num_traits / core).                                    *)
(***************************************************************************)
Abs(x) == IF x < 0 THEN -x ELSE x

Signum(x) == IF x > 0 THEN 1 ELSE IF x < 0 THEN -1 ELSE 0

Max(a, b) == IF a >= b THEN a ELSE b

None == << >>

Some(p) == << p >>

Reverse(s) == [i \in 1..Len(s) |-> s[Len(s) + 1 - i]]

(***************************************************************************)
(* The caller: a traversal being collected.                                *)
(***************************************************************************)
NoRun == [kind |-> "None", self |-> << >>, out |-> << >>, done |-> TRUE]

NewRun(kind, self) == [kind |-> kind, self |-> self, out |-> << >>, done |-> FALSE]

\* One next() call whose result r = [self, item] is recorded: the item is
\* appended, or the traversal is marked finished when it returned None.
Pull(run, r) ==
    IF r.item = None
    THEN [run EXCEPT !.self = r.self, !.done = TRUE]
    ELSE [run EXCEPT !.self = r.self, !.out = Append(@, r.item[1])]

(***************************************************************************)
(* octant.rs                                                               *)
(***************************************************************************)
\* Octant::new with the test dx < dy left out
OctantNewNoSwap(s, e) ==
    LET dx0 == e[1] - s[1]
        dy0 == e[2] - s[2]
        neg == dy0 < 0
        dx1 == IF neg THEN -dx0 ELSE dx0
        v1  == IF neg THEN 4 ELSE 0
    IN  IF dx1 < 0 THEN v1 + 2 ELSE v1

OctantNew(s, e) ==
    LET dx0 == e[1] - s[1]
        dy0 == e[2] - s[2]
        neg == dy0 < 0
        dx1 == IF neg THEN -dx0 ELSE dx0
        dy1 == IF neg THEN -dy0 ELSE dy0
        v1  == IF neg THEN 4 ELSE 0
        rot == dx1 < 0
        dx2 == IF rot THEN dy1 ELSE dx1
        dy2 == IF rot THEN -dx1 ELSE dy1
        v2  == IF rot THEN v1 + 2 ELSE v1
    IN  IF dx2 < dy2 THEN v2 + 1 ELSE v2

OctantTo(value, p) ==
    CASE value = 0 -> << p[1], p[2] >>
      [] value = 1 -> << p[2], p[1] >>
      [] value = 2 -> << p[2], -p[1] >>
      [] value = 3 -> << -p[1], p[2] >>
      [] value = 4 -> << -p[1], -p[2] >>
      [] value = 5 -> << -p[2], -p[1] >>
      [] value = 6 -> << -p[2], p[1] >>
      [] value = 7 -> << p[1], -p[2] >>

\* Octant::from with the table of Octant::to
OctantFromAsTo(value, p) == OctantTo(value, p)

OctantFrom(value, p) ==
    CASE value = 0 -> << p[1], p[2] >>
      [] value = 1 -> << p[2], p[1] >>
      [] value = 2 -> << -p[2], p[1] >>
      [] value = 3 -> << -p[1], p[2] >>
      [] value = 4 -> << -p[1], -p[2] >>
      [] value = 5 -> << -p[2], -p[1] >>
      [] value = 6 -> << p[2], -p[1] >>
      [] value = 7 -> << p[1], -p[2] >>

(***************************************************************************)
(* bresenham.rs                                                            *)
(***************************************************************************)
BresenhamNew(s, e) ==
    LET octant == OctantNew(s, e)
        ns == OctantTo(octant, s)
        ne == OctantTo(octant, e)
        delta_x == ne[1] - ns[1]
        delta_y == ne[2] - ns[2]
    IN  [delta_x |-> delta_x, delta_y |-> delta_y, octant |-> octant,
         point |-> ns, end_x |-> ne[1], error |-> delta_y - delta_x]

\* Mutant: the loop bound excludes the end column.
BresenhamNextExclusive(self) ==
    IF self.point[1] < self.end_x
    THEN LET up == self.error >= 0
             y1 == IF up THEN self.point[2] + 1 ELSE self.point[2]
             e1 == IF up THEN self.error - self.delta_x ELSE self.error
         IN  [self |-> [self EXCEPT !.point = << self.point[1] + 1, y1 >>,
                                    !.error = e1 + self.delta_y],
              item |-> Some(OctantFrom(self.octant, self.point))]
    ELSE [self |-> self, item |-> None]

\* Bresenham::next with the test error > 0 in place of error >= 0
BresenhamNextTieStraight(self) ==
    IF self.point[1] <= self.end_x
    THEN LET up == self.error > 0
             y1 == IF up THEN self.point[2] + 1 ELSE self.point[2]
             e1 == IF up THEN self.error - self.delta_x ELSE self.error
         IN  [self |-> [self EXCEPT !.point = << self.point[1] + 1, y1 >>,
                                    !.error = e1 + self.delta_y],
              item |-> Some(OctantFrom(self.octant, self.point))]
    ELSE [self |-> self, item |-> None]

BresenhamNext(self) ==
    IF self.point[1] <= self.end_x
    THEN LET up == self.error >= 0
             y1 == IF up THEN self.point[2] + 1 ELSE self.point[2]
             e1 == IF up THEN self.error - self.delta_x ELSE self.error
         IN  [self |-> [self EXCEPT !.point = << self.point[1] + 1, y1 >>,
                                    !.error = e1 + self.delta_y],
              item |-> Some(OctantFrom(self.octant, self.point))]
    ELSE [self |-> self, item |-> None]

(***************************************************************************)
(* Specification: Bresenham::new(start, end) collected to the end.         *)
(***************************************************************************)
Coords == -MaxCoord .. MaxCoord

Points == Coords \X Coords

InitBresenham ==
    /\ start \in Points
    /\ end \in Points
    /\ origin = "None"
    /\ unit = 1
    /\ line = NewRun("Bresenham", BresenhamNew(start, end))
    /\ other = NoRun

NextBresenham ==
    /\ line.kind = "Bresenham"
    /\ ~line.done
    /\ line' = Pull(line, BresenhamNext(line.self))
    /\ UNCHANGED <<start, end, origin, unit, other>>

SpecBresenham == InitBresenham /\ [][NextBresenham]_vars

\* C1: Bresenham emits exactly max(|dx|,|dy|)+1 points, the first is start,
\* the last is end, and neither start nor end is emitted at another position.
C1_BresenhamEndpoints ==
    line.done =>
        LET out == line.out
            n == Max(Abs(end[1] - start[1]), Abs(end[2] - start[2])) + 1
        IN  /\ Len(out) = n
            /\ out[1] = start
            /\ out[n] = end
            /\ \A i \in 2..n : out[i] # start
            /\ \A i \in 1..(n - 1) : out[i] # end

\* A finished traversal of a line that is neither axis-aligned nor diagonal.
C1_Witness ==
    /\ line.kind = "Bresenham"
    /\ line.done
    /\ Len(line.out) >= 4
    /\ Abs(end[1] - start[1]) # Abs(end[2] - start[2])
    /\ end[1] # start[1]
    /\ end[2] # start[2]

(***************************************************************************)
(* bresenham_3d.rs                                                         *)
(***************************************************************************)
\* Mutant: sign_y is taken from delta_x.
Bresenham3dNewSignCopy(s, e) ==
    LET delta_x == e[1] - s[1]
        delta_y == e[2] - s[2]
        delta_z == e[3] - s[3]
        len_x == Abs(delta_x)
        len_y == Abs(delta_y)
        len_z == Abs(delta_z)
        longest == Max(len_x, Max(len_y, len_z))
    IN  [len_x |-> len_x, len_y |-> len_y, len_z |-> len_z, longest |-> longest,
         count |-> longest,
         err_x |-> longest \div 2, err_y |-> longest \div 2,
         err_z |-> longest \div 2,
         sign_x |-> Signum(delta_x), sign_y |-> Signum(delta_x),
         sign_z |-> Signum(delta_z),
         voxel |-> s]

Bresenham3dNew(s, e) ==
    LET delta_x == e[1] - s[1]
        delta_y == e[2] - s[2]
        delta_z == e[3] - s[3]
        len_x == Abs(delta_x)
        len_y == Abs(delta_y)
        len_z == Abs(delta_z)
        longest == Max(len_x, Max(len_y, len_z))
    IN  [len_x |-> len_x, len_y |-> len_y, len_z |-> len_z, longest |-> longest,
         count |-> longest,
         err_x |-> longest \div 2, err_y |-> longest \div 2,
         err_z |-> longest \div 2,
         sign_x |-> Signum(delta_x), sign_y |-> Signum(delta_y),
         sign_z |-> Signum(delta_z),
         voxel |-> s]

\* Mutant: the counter test is strict, so the last voxel is never returned.
Bresenham3dNextStrict(self) ==
    IF self.count > 0
    THEN LET ex == self.err_x - self.len_x
             ey == self.err_y - self.len_y
             ez == self.err_z - self.len_z
         IN  [self |-> [self EXCEPT
                  !.count = self.count - 1,
                  !.err_x = IF ex < 0 THEN ex + self.longest ELSE ex,
                  !.err_y = IF ey < 0 THEN ey + self.longest ELSE ey,
                  !.err_z = IF ez < 0 THEN ez + self.longest ELSE ez,
                  !.voxel = << IF ex < 0 THEN self.voxel[1] + self.sign_x ELSE self.voxel[1],
                               IF ey < 0 THEN self.voxel[2] + self.sign_y ELSE self.voxel[2],
                               IF ez < 0 THEN self.voxel[3] + self.sign_z ELSE self.voxel[3] >>],
              item |-> Some(self.voxel)]
    ELSE [self |-> self, item |-> None]

\* Bresenham3d::next with self.count -= 1 ahead of the test of the counter
Bresenham3dNextCountFirst(self) ==
    IF self.count >= 0
    THEN LET ex == self.err_x - self.len_x
             ey == self.err_y - self.len_y
             ez == self.err_z - self.len_z
         IN  [self |-> [self EXCEPT
                  !.count = self.count - 1,
                  !.err_x = IF ex < 0 THEN ex + self.longest ELSE ex,
                  !.err_y = IF ey < 0 THEN ey + self.longest ELSE ey,
                  !.err_z = IF ez < 0 THEN ez + self.longest ELSE ez,
                  !.voxel = << IF ex < 0 THEN self.voxel[1] + self.sign_x ELSE self.voxel[1],
                               IF ey < 0 THEN self.voxel[2] + self.sign_y ELSE self.voxel[2],
                               IF ez < 0 THEN self.voxel[3] + self.sign_z ELSE self.voxel[3] >>],
              item |-> Some(self.voxel)]
    ELSE [self |-> [self EXCEPT !.count = self.count - 1], item |-> None]

Bresenham3dNext(self) ==
    IF self.count >= 0
    THEN LET ex == self.err_x - self.len_x
             ey == self.err_y - self.len_y
             ez == self.err_z - self.len_z
         IN  [self |-> [self EXCEPT
                  !.count = self.count - 1,
                  !.err_x = IF ex < 0 THEN ex + self.longest ELSE ex,
                  !.err_y = IF ey < 0 THEN ey + self.longest ELSE ey,
                  !.err_z = IF ez < 0 THEN ez + self.longest ELSE ez,
                  !.voxel = << IF ex < 0 THEN self.voxel[1] + self.sign_x ELSE self.voxel[1],
                               IF ey < 0 THEN self.voxel[2] + self.sign_y ELSE self.voxel[2],
                               IF ez < 0 THEN self.voxel[3] + self.sign_z ELSE self.voxel[3] >>],
              item |-> Some(self.voxel)]
    ELSE [self |-> self, item |-> None]

(***************************************************************************)
(* Specification: Bresenham3d::new(start, end) collected to the end, then  *)
(* Bresenham3d::new(end, start) collected to the end.                      *)
(***************************************************************************)
StartVoxels == (0 .. MaxStart3) \X (0 .. MaxStart3) \X (0 .. MaxStart3)

EndVoxels == (-MaxEnd3 .. MaxEnd3) \X (-MaxEnd3 .. MaxEnd3) \X (-MaxEnd3 .. MaxEnd3)

InitBresenham3d ==
    /\ start \in StartVoxels
    /\ end \in EndVoxels
    /\ origin = "None"
    /\ unit = 1
    /\ line = NewRun("Bresenham3d", Bresenham3dNew(start, end))
    /\ other = NewRun("Bresenham3d", Bresenham3dNew(end, start))

NextBresenham3d ==
    /\ line.kind = "Bresenham3d"
    /\ ~line.done
    /\ line' = Pull(line, Bresenham3dNext(line.self))
    /\ UNCHANGED <<start, end, origin, unit, other>>

NextBresenham3dSwapped ==
    /\ other.kind = "Bresenham3d"
    /\ line.done
    /\ ~other.done
    /\ other' = Pull(other, Bresenham3dNext(other.self))
    /\ UNCHANGED <<start, end, origin, unit, line>>

SpecBresenham3d ==
    InitBresenham3d /\ [][NextBresenham3d \/ NextBresenham3dSwapped]_vars

Longest3(s, e) ==
    Max(Abs(e[1] - s[1]), Max(Abs(e[2] - s[2]), Abs(e[3] - s[3])))

\* C2: Bresenham3d::new(start, end) emits exactly max(|dx|,|dy|,|dz|)+1 voxels
\* before returning None, and Bresenham3d::new(end, start) emits as many.
C2_Bresenham3dCount ==
    /\ line.done => Len(line.out) = Longest3(start, end) + 1
    /\ other.done => Len(other.out) = Len(line.out)

\* Both directions of a line with three different axis lengths are finished.
C2_Witness ==
    /\ line.kind = "Bresenham3d"
    /\ line.done
    /\ other.done
    /\ Len(other.out) >= 3
    /\ Cardinality({Abs(end[i] - start[i]) : i \in 1..3}) = 3

\* C3: the first voxel Bresenham3d emits is start and the last one is end.
C3_Bresenham3dEndpoints ==
    /\ (line.done => /\ line.out # << >>
                     /\ line.out[1] = start
                     /\ line.out[Len(line.out)] = end)
    /\ (other.done => /\ other.out # << >>
                      /\ other.out[1] = end
                      /\ other.out[Len(other.out)] = start)

\* A finished line whose follower axes are shorter than the driving axis
\* and not zero, with an odd driving length (longest / 2 rounds down).
C3_Witness ==
    /\ line.kind = "Bresenham3d"
    /\ line.done
    /\ other.done
    /\ Abs(end[1] - start[1]) = 3
    /\ Abs(end[2] - start[2]) = 2
    /\ Abs(end[3] - start[3]) = 1

(***************************************************************************)
(* grid_walking.rs                                                         *)
(*                                                                         *)
(* ix, iy, nx and ny are f32 fields holding whole numbers.  The quotient   *)
(* (0.5 + i) / n is kept as the fraction (2i + 1) / (2n); a zero           *)
(* denominator is the +infinity IEEE division yields for n = 0.  Two       *)
(* quotients are compared exactly, which is what f32 does for the whole    *)
(* numbers of the checked range (distinct quotients differ by far more     *)
(* than one ulp, equal ones round to the same float).                      *)
(***************************************************************************)
Ratio(i, n) == [num |-> 2 * i + 1, den |-> 2 * n]

\* a < b on f32: +infinity is below nothing, and every finite value is
\* below +infinity.
RatioLess(a, b) ==
    IF a.den = 0 THEN FALSE
    ELSE IF b.den = 0 THEN TRUE
    ELSE a.num * b.den < b.num * a.den

\* The class of the f32 difference a - b: infinity - infinity is NaN.
RatioDifference(a, b) ==
    IF a.den = 0 /\ b.den = 0 THEN "NaN"
    ELSE IF a.den = 0 THEN "Positive"
    ELSE IF b.den = 0 THEN "Negative"
    ELSE IF a.num * b.den = b.num * a.den THEN "Zero"
    ELSE IF a.num * b.den < b.num * a.den THEN "Negative"
    ELSE "Positive"

WalkGridNew(s, e) ==
    LET dx == e[1] - s[1]
        dy == e[2] - s[2]
    IN  [point |-> s, ix |-> 0, iy |-> 0,
         sign_x |-> Signum(dx), sign_y |-> Signum(dx),
         nx |-> Abs(dx), ny |-> Abs(dy)]

\* Mutant: a tie moves the point along both axes.
WalkGridNextDiagonalTie(self) ==
    IF self.ix <= self.nx /\ self.iy <= self.ny
    THEN [self |->
            IF RatioDifference(Ratio(self.ix, self.nx), Ratio(self.iy, self.ny)) = "Zero"
            THEN [self EXCEPT !.point = << self.point[1] + self.sign_x,
                                           self.point[2] + self.sign_y >>,
                              !.ix = self.ix + 1, !.iy = self.iy + 1]
            ELSE IF RatioLess(Ratio(self.ix, self.nx), Ratio(self.iy, self.ny))
            THEN [self EXCEPT !.point = << self.point[1] + self.sign_x, self.point[2] >>,
                              !.ix = self.ix + 1]
            ELSE [self EXCEPT !.point = << self.point[1], self.point[2] + self.sign_y >>,
                              !.iy = self.iy + 1],
          item |-> Some(self.point)]
    ELSE [self |-> self, item |-> None]

WalkGridNext(self) ==
    IF self.ix <= self.nx /\ self.iy <= self.ny
    THEN [self |->
            IF RatioLess(Ratio(self.ix, self.nx), Ratio(self.iy, self.ny))
            THEN [self EXCEPT !.point = << self.point[1] + self.sign_x, self.point[2] >>,
                              !.ix = self.ix + 1]
            ELSE [self EXCEPT !.point = << self.point[1], self.point[2] + self.sign_y >>,
                              !.iy = self.iy + 1],
          item |-> Some(self.point)]
    ELSE [self |-> self, item |-> None]

SupercoverNew(s, e) ==
    LET dx == e[1] - s[1]
        dy == e[2] - s[2]
    IN  [point |-> s, ix |-> 0, iy |-> 0,
         sign_x |-> Signum(dx), sign_y |-> Signum(dy),
         nx |-> Abs(dx), ny |-> Abs(dy)]

\* Mutant: no diagonal jump; a tie steps along y as WalkGrid does.
SupercoverNextNoDiagonal(self) ==
    IF self.ix <= self.nx /\ self.iy <= self.ny
    THEN LET comparison ==
                 RatioDifference(Ratio(self.ix, self.nx), Ratio(self.iy, self.ny))
         IN  [self |->
                IF comparison = "Negative"
                THEN [self EXCEPT !.point = << self.point[1] + self.sign_x, self.point[2] >>,
                                  !.ix = self.ix + 1]
                ELSE [self EXCEPT !.point = << self.point[1], self.point[2] + self.sign_y >>,
                                  !.iy = self.iy + 1],
              item |-> Some(self.point)]
    ELSE [self |-> self, item |-> None]

SupercoverNext(self) ==
    IF self.ix <= self.nx /\ self.iy <= self.ny
    THEN LET comparison ==
                 RatioDifference(Ratio(self.ix, self.nx), Ratio(self.iy, self.ny))
         IN  [self |->
                IF comparison = "Zero"
                THEN [self EXCEPT !.point = << self.point[1] + self.sign_x,
                                               self.point[2] + self.sign_y >>,
                                  !.ix = self.ix + 1, !.iy = self.iy + 1]
                ELSE IF comparison = "Negative"
                THEN [self EXCEPT !.point = << self.point[1] + self.sign_x, self.point[2] >>,
                                  !.ix = self.ix + 1]
                ELSE [self EXCEPT !.point = << self.point[1], self.point[2] + self.sign_y >>,
                                  !.iy = self.iy + 1],
              item |-> Some(self.point)]
    ELSE [self |-> self, item |-> None]

(***************************************************************************)
(* Specification: Supercover::new(start, end) collected to the end, then   *)
(* Supercover::new(end, start) collected to the end (fuzzing.rs,           *)
(* supercover_symmetrical).                                                *)
(***************************************************************************)
InitSupercover ==
    /\ start \in Points
    /\ end \in Points
    /\ origin = "None"
    /\ unit = 1
    /\ line = NewRun("Supercover", SupercoverNew(start, end))
    /\ other = NewRun("Supercover", SupercoverNew(end, start))

NextSupercover ==
    /\ line.kind = "Supercover"
    /\ ~line.done
    /\ line' = Pull(line, SupercoverNext(line.self))
    /\ UNCHANGED <<start, end, origin, unit, other>>

NextSupercoverOther ==
    /\ other.kind = "Supercover"
    /\ line.done
    /\ ~other.done
    /\ other' = Pull(other, SupercoverNext(other.self))
    /\ UNCHANGED <<start, end, origin, unit, line>>

SpecSupercover == InitSupercover /\ [][NextSupercover \/ NextSupercoverOther]_vars

\* C4: the sequence emitted by Supercover::new(a, b) equals the reverse of
\* the sequence emitted by Supercover::new(b, a).
C4_SupercoverSymmetrical ==
    (line.done /\ other.done) => line.out = Reverse(other.out)

\* Both directions are finished for a line that has a diagonal jump in its
\* interior and orthogonal steps as well.
C4_Witness ==
    /\ line.kind = "Supercover"
    /\ line.done
    /\ other.done
    /\ Abs(end[1] - start[1]) # Abs(end[2] - start[2])
    /\ \E i \in 2..(Len(line.out) - 2) :
          /\ line.out[i][1] # line.out[i + 1][1]
          /\ line.out[i][2] # line.out[i + 1][2]

(***************************************************************************)
(* Specification: WalkGrid::new(start, end) collected to the end, then     *)
(* Supercover::new(start, end) collected to the end (grid_walking.rs,      *)
(* supercover_tests).                                                      *)
(***************************************************************************)
InitWalkGrid ==
    /\ start \in Points
    /\ end \in Points
    /\ origin = "None"
    /\ unit = 1
    /\ line = NewRun("WalkGrid", WalkGridNew(start, end))
    /\ other = NewRun("Supercover", SupercoverNew(start, end))

NextWalkGrid ==
    /\ line.kind = "WalkGrid"
    /\ ~line.done
    /\ line' = Pull(line, WalkGridNext(line.self))
    /\ UNCHANGED <<start, end, origin, unit, other>>

SpecWalkGrid == InitWalkGrid /\ [][NextWalkGrid \/ NextSupercoverOther]_vars

\* C5: WalkGrid::new(start, end) emits start first and end last, and emits
\* exactly |dx|+|dy|+1 points, in every combination of signs of dx and dy.
C5_WalkGridEndpoints ==
    (line.kind = "WalkGrid" /\ line.done) =>
        /\ Len(line.out) = Abs(end[1] - start[1]) + Abs(end[2] - start[2]) + 1
        /\ line.out[1] = start
        /\ line.out[Len(line.out)] = end

\* C6: the sequence emitted by WalkGrid never contains two consecutive
\* points that differ in both coordinates.
C6_WalkGridOrthogonal ==
    line.kind = "WalkGrid" =>
        \A i \in 1..(Len(line.out) - 1) :
            ~ (/\ line.out[i][1] # line.out[i + 1][1]
               /\ line.out[i][2] # line.out[i + 1][2])

\* A finished walk of a diagonal line, whose every other comparison ties.
C6_Witness ==
    /\ line.kind = "WalkGrid"
    /\ line.done
    /\ Abs(end[1] - start[1]) = Abs(end[2] - start[2])
    /\ Abs(end[1] - start[1]) >= 2
    /\ Len(line.out) = 2 * Abs(end[1] - start[1]) + 1

\* No exact tie occurs during the walk from s to e.
NoTie(s, e) ==
    LET nx == Abs(e[1] - s[1])
        ny == Abs(e[2] - s[2])
    IN  \A i \in 0..(nx - 1), j \in 0..(ny - 1) :
            (2 * i + 1) * ny # (2 * j + 1) * nx

\* C7: when no exact tie occurs during the walk, Supercover::new(start, end)
\* emits exactly the same sequence as WalkGrid::new(start, end).
C7_SupercoverEqualsWalkGrid ==
    (line.kind = "WalkGrid" /\ line.done /\ other.done /\ NoTie(start, end)) =>
        other.out = line.out

(***************************************************************************)
(* walk_voxels.rs                                                          *)
(*                                                                         *)
(* A continuous coordinate is the fraction c / u of a whole numerator c    *)
(* and the unit u (`unit`).  vx, vy, vz are kept as numerators over u, and *)
(* the six error fields as numerators over u^3, so that every comparison   *)
(* the code makes between them is a comparison of whole numbers.  For a    *)
(* unit that is a power of two the floats of the code hold exactly these   *)
(* values; for another unit the model is the code in exact arithmetic.     *)
(***************************************************************************)
Compare(a, b) == IF a > b THEN 1 ELSE IF a = b THEN 0 ELSE -1

\* floor(c / u)
Floor(c, u) == c \div u

\* round(c / u): to the nearest whole number, halves away from zero.
Round(c, u) ==
    IF c >= 0 THEN (2 * c + u) \div (2 * u) ELSE -((2 * (-c) + u) \div (2 * u))

VoxelOriginRound(org, voxel, u) ==
    IF org = "Corner"
    THEN << Floor(voxel[1], u), Floor(voxel[2], u), Floor(voxel[3], u) >>
    ELSE << Round(voxel[1], u), Round(voxel[2], u), Round(voxel[3], u) >>

\* Mutant: the next plane is the voxel's own lower face in every direction.
WalkVoxelsNewLowerPlane(s, e, org, u) ==
    LET start_i == VoxelOriginRound(org, s, u)
        end_i == VoxelOriginRound(org, e, u)
        count == Abs(start_i[1] - end_i[1]) + Abs(start_i[2] - end_i[2])
                 + Abs(start_i[3] - end_i[3])
        sign_x == Compare(end_i[1], start_i[1])
        sign_y == Compare(end_i[2], start_i[2])
        sign_z == Compare(end_i[3], start_i[3])
        x_plane == start_i[1]
        y_plane == start_i[2]
        z_plane == start_i[3]
        vx == IF s[1] = e[1] THEN u ELSE e[1] - s[1]
        vy == IF s[2] = e[2] THEN u ELSE e[2] - s[2]
        vz == IF s[3] = e[3] THEN u ELSE e[3] - s[3]
        vxvy == vx * vy
        vxvz == vx * vz
        vyvz == vy * vz
    IN  [sign_x |-> sign_x, sign_y |-> sign_y, sign_z |-> sign_z,
         count |-> count, voxel |-> start_i,
         err_x |-> (x_plane * u - s[1]) * vyvz,
         err_y |-> (y_plane * u - s[2]) * vxvz,
         err_z |-> (z_plane * u - s[3]) * vxvy,
         d_err_x |-> sign_x * u * vyvz,
         d_err_y |-> sign_y * u * vxvz,
         d_err_z |-> sign_z * u * vxvy]

WalkVoxelsNew(s, e, org, u) ==
    LET start_i == VoxelOriginRound(org, s, u)
        end_i == VoxelOriginRound(org, e, u)
        count == Abs(start_i[1] - end_i[1]) + Abs(start_i[2] - end_i[2])
                 + Abs(start_i[3] - end_i[3])
        sign_x == Compare(end_i[1], start_i[1])
        sign_y == Compare(end_i[2], start_i[2])
        sign_z == Compare(end_i[3], start_i[3])
        x_plane == start_i[1] + (IF end_i[1] > start_i[1] THEN 1 ELSE 0)
        y_plane == start_i[2] + (IF end_i[2] > start_i[2] THEN 1 ELSE 0)
        z_plane == start_i[3] + (IF end_i[3] > start_i[3] THEN 1 ELSE 0)
        vx == IF s[1] = e[1] THEN u ELSE e[1] - s[1]
        vy == IF s[2] = e[2] THEN u ELSE e[2] - s[2]
        vz == IF s[3] = e[3] THEN u ELSE e[3] - s[3]
        vxvy == vx * vy
        vxvz == vx * vz
        vyvz == vy * vz
    IN  [sign_x |-> sign_x, sign_y |-> sign_y, sign_z |-> sign_z,
         count |-> count, voxel |-> start_i,
         err_x |-> (x_plane * u - s[1]) * vyvz,
         err_y |-> (y_plane * u - s[2]) * vxvz,
         err_z |-> (z_plane * u - s[3]) * vxvy,
         d_err_x |-> sign_x * u * vyvz,
         d_err_y |-> sign_y * u * vxvz,
         d_err_z |-> sign_z * u * vxvy]

\* Mutant: the x branch does not test that the x direction is non-zero.
WalkVoxelsNextNoZeroTest(self) ==
    IF self.count >= 0
    THEN LET xr == Abs(self.err_x)
             yr == Abs(self.err_y)
             zr == Abs(self.err_z)
             x_zero == self.sign_x = 0
             y_zero == self.sign_y = 0
             z_zero == self.sign_z = 0
             counted == [self EXCEPT !.count = self.count - 1]
         IN  [self |->
                IF (y_zero \/ xr < yr) /\ (z_zero \/ xr < zr)
                THEN [counted EXCEPT
                        !.voxel = << self.voxel[1] + self.sign_x, self.voxel[2], self.voxel[3] >>,
                        !.err_x = self.err_x + self.d_err_x]
                ELSE IF ~y_zero /\ (z_zero \/ yr < zr)
                THEN [counted EXCEPT
                        !.voxel = << self.voxel[1], self.voxel[2] + self.sign_y, self.voxel[3] >>,
                        !.err_y = self.err_y + self.d_err_y]
                ELSE IF ~z_zero
                THEN [counted EXCEPT
                        !.voxel = << self.voxel[1], self.voxel[2], self.voxel[3] + self.sign_z >>,
                        !.err_z = self.err_z + self.d_err_z]
                ELSE counted,
              item |-> Some(self.voxel)]
    ELSE [self |-> self, item |-> None]

\* WalkVoxels::next with the tests <= in place of <
WalkVoxelsNextTieFirst(self) ==
    IF self.count >= 0
    THEN LET xr == Abs(self.err_x)
             yr == Abs(self.err_y)
             zr == Abs(self.err_z)
             x_zero == self.sign_x = 0
             y_zero == self.sign_y = 0
             z_zero == self.sign_z = 0
             counted == [self EXCEPT !.count = self.count - 1]
         IN  [self |->
                IF ~x_zero /\ (y_zero \/ xr <= yr) /\ (z_zero \/ xr <= zr)
                THEN [counted EXCEPT
                        !.voxel = << self.voxel[1] + self.sign_x, self.voxel[2], self.voxel[3] >>,
                        !.err_x = self.err_x + self.d_err_x]
                ELSE IF ~y_zero /\ (z_zero \/ yr <= zr)
                THEN [counted EXCEPT
                        !.voxel = << self.voxel[1], self.voxel[2] + self.sign_y, self.voxel[3] >>,
                        !.err_y = self.err_y + self.d_err_y]
                ELSE IF ~z_zero
                THEN [counted EXCEPT
                        !.voxel = << self.voxel[1], self.voxel[2], self.voxel[3] + self.sign_z >>,
                        !.err_z = self.err_z + self.d_err_z]
                ELSE counted,
              item |-> Some(self.voxel)]
    ELSE [self |-> self, item |-> None]

WalkVoxelsNext(self) ==
    IF self.count >= 0
    THEN LET xr == Abs(self.err_x)
             yr == Abs(self.err_y)
             zr == Abs(self.err_z)
             x_zero == self.sign_x = 0
             y_zero == self.sign_y = 0
             z_zero == self.sign_z = 0
             counted == [self EXCEPT !.count = self.count - 1]
         IN  [self |->
                IF ~x_zero /\ (y_zero \/ xr < yr) /\ (z_zero \/ xr < zr)
                THEN [counted EXCEPT
                        !.voxel = << self.voxel[1] + self.sign_x, self.voxel[2], self.voxel[3] >>,
                        !.err_x = self.err_x + self.d_err_x]
                ELSE IF ~y_zero /\ (z_zero \/ yr < zr)
                THEN [counted EXCEPT
                        !.voxel = << self.voxel[1], self.voxel[2] + self.sign_y, self.voxel[3] >>,
                        !.err_y = self.err_y + self.d_err_y]
                ELSE IF ~z_zero
                THEN [counted EXCEPT
                        !.voxel = << self.voxel[1], self.voxel[2], self.voxel[3] + self.sign_z >>,
                        !.err_z = self.err_z + self.d_err_z]
                ELSE counted,
              item |-> Some(self.voxel)]
    ELSE [self |-> self, item |-> None]

(***************************************************************************)
(* Specification: WalkVoxels::new(start, end, origin) collected to the     *)
(* end, for coordinates that are multiples of 1 / Denom, and for the       *)
(* arguments of the test in walk_voxels.rs (thousandths).                  *)
(***************************************************************************)
StartNumerators == (0 .. MaxStartV) \X (0 .. MaxStartV) \X (0 .. MaxStartV)

EndNumerators == (-MaxEndV .. MaxEndV) \X (-MaxEndV .. MaxEndV) \X (-MaxEndV .. MaxEndV)

TestedWalk ==
    /\ start = << 472, -1100, 179 >>
    /\ end = << 1114, -391, 927 >>
    /\ origin = "Center"
    /\ unit = 1000

InitWalkVoxels ==
    /\ \/ /\ start \in StartNumerators
          /\ end \in EndNumerators
          /\ origin \in {"Corner", "Center"}
          /\ unit = Denom
       \/ TestedWalk
    /\ line = NewRun("WalkVoxels", WalkVoxelsNew(start, end, origin, unit))
    /\ other = NoRun

NextWalkVoxels ==
    /\ line.kind = "WalkVoxels"
    /\ ~line.done
    /\ line' = Pull(line, WalkVoxelsNext(line.self))
    /\ UNCHANGED <<start, end, origin, unit, other>>

SpecWalkVoxels == InitWalkVoxels /\ [][NextWalkVoxels]_vars

\* C8: the first voxel WalkVoxels emits is origin.round(start) and the last
\* one is origin.round(end).
C8_WalkVoxelsEndpoints ==
    (line.kind = "WalkVoxels" /\ line.done) =>
        /\ line.out # << >>
        /\ line.out[1] = VoxelOriginRound(origin, start, unit)
        /\ line.out[Len(line.out)] = VoxelOriginRound(origin, end, unit)

(***************************************************************************)
(* The voxels a continuous segment passes through.  The segment is         *)
(* s + t * (e - s) for 0 <= t <= 1; it is inside the open unit cube of     *)
(* voxel v on axis a for the t of an open interval, whose two ends are     *)
(* kept as fractions with a positive denominator.                          *)
(***************************************************************************)
FracLess(p, q) == p.n * q.d < q.n * p.d

\* The lower end of the interval of t for which axis a is inside voxel v.
EnterTime(s, e, v, a, u) ==
    LET delta == e[a] - s[a]
        lo == v[a] * u - s[a]
        hi == (v[a] + 1) * u - s[a]
    IN  IF delta > 0 THEN [n |-> lo, d |-> delta]
        ELSE IF delta < 0 THEN [n |-> -hi, d |-> -delta]
        ELSE IF lo < 0 /\ 0 < hi THEN [n |-> -1, d |-> 1]
        ELSE [n |-> 2, d |-> 1]

\* The upper end of that interval.
LeaveTime(s, e, v, a, u) ==
    LET delta == e[a] - s[a]
        lo == v[a] * u - s[a]
        hi == (v[a] + 1) * u - s[a]
    IN  IF delta > 0 THEN [n |-> hi, d |-> delta]
        ELSE IF delta < 0 THEN [n |-> -lo, d |-> -delta]
        ELSE IF lo < 0 /\ 0 < hi THEN [n |-> 2, d |-> 1]
        ELSE [n |-> -1, d |-> 1]

\* Some point of the segment lies in the interior of voxel v: the three
\* open intervals and [0, 1] have a common point.
PassesThrough(s, e, v, u) ==
    /\ \A a \in 1..3, b \in 1..3 :
          FracLess(EnterTime(s, e, v, a, u), LeaveTime(s, e, v, b, u))
    /\ \A a \in 1..3 :
          /\ FracLess(EnterTime(s, e, v, a, u), [n |-> 1, d |-> 1])
          /\ FracLess([n |-> 0, d |-> 1], LeaveTime(s, e, v, a, u))

\* The voxels of the bounding box of the segment.
BoxVoxels(s, e, u) ==
    LET lo(a) == IF s[a] <= e[a] THEN Floor(s[a], u) ELSE Floor(e[a], u)
        hi(a) == IF s[a] <= e[a] THEN Floor(e[a], u) ELSE Floor(s[a], u)
    IN  (lo(1) .. hi(1)) \X (lo(2) .. hi(2)) \X (lo(3) .. hi(3))

Emitted(run) == {run.out[i] : i \in 1..Len(run.out)}

\* C9: with VoxelOrigin::Corner, every unit voxel whose interior the segment
\* from start to end passes through is among the emitted voxels.
C9_WalkVoxelsCoversSegment ==
    (line.kind = "WalkVoxels" /\ line.done /\ origin = "Corner") =>
        \A v \in BoxVoxels(start, end, unit) :
            PassesThrough(start, end, v, unit) => v \in Emitted(line)

\* A finished Corner walk of a segment that passes through the interior of
\* at least four voxels and moves along all three axes.
C9_Witness ==
    /\ line.kind = "WalkVoxels"
    /\ line.done
    /\ origin = "Corner"
    /\ line.self.sign_x # 0
    /\ line.self.sign_y # 0
    /\ line.self.sign_z # 0
    /\ Cardinality({v \in BoxVoxels(start, end, unit) :
                       PassesThrough(start, end, v, unit)}) >= 4

Distance1(p, q) == Abs(p[1] - q[1]) + Abs(p[2] - q[2]) + Abs(p[3] - q[3])

\* C10: WalkVoxels emits exactly |dx|+|dy|+|dz|+1 voxels, dx, dy, dz being
\* the differences of the rounded start and end; every two consecutive
\* voxels differ by exactly 1 in exactly one axis; and the tested walk
\* yields (0,-1,0), (1,-1,0), (1,-1,1), (1,0,1).
C10_WalkVoxelsUnitSteps ==
    line.kind = "WalkVoxels" =>
        /\ \A i \in 1..(Len(line.out) - 1) :
              Distance1(line.out[i], line.out[i + 1]) = 1
        /\ line.done =>
              Len(line.out) = Distance1(VoxelOriginRound(origin, start, unit),
                                        VoxelOriginRound(origin, end, unit)) + 1
        /\ (line.done /\ TestedWalk) =>
              line.out = << << 0, -1, 0 >>, << 1, -1, 0 >>, << 1, -1, 1 >>, << 1, 0, 1 >> >>

\* A finished walk of at least five voxels that moves along all three axes.
C10_Witness ==
    /\ line.kind = "WalkVoxels"
    /\ line.done
    /\ unit = Denom
    /\ Len(line.out) >= 5
    /\ line.self.sign_x # 0
    /\ line.self.sign_y # 0
    /\ line.self.sign_z # 0


(***************************************************************************)
(* Specification: WalkVoxels::new(start, end, origin) collected to the     *)
(* end, then WalkVoxels::new(end, start, origin) collected to the end, as  *)
(* walk_voxels_symmetrical in fuzzing.rs does with both argument orders.   *)
(***************************************************************************)
BothNumerators == (-MaxStartV .. MaxStartV) \X (-MaxStartV .. MaxStartV) \X (-MaxStartV .. MaxStartV)

InitWalkVoxelsBoth ==
    /\ start \in StartNumerators
    /\ end \in BothNumerators
    /\ origin \in {"Corner", "Center"}
    /\ unit = Denom
    /\ line = NewRun("WalkVoxels", WalkVoxelsNew(start, end, origin, unit))
    /\ other = NewRun("WalkVoxels", WalkVoxelsNew(end, start, origin, unit))

NextWalkVoxelsBoth ==
    /\ line.kind = "WalkVoxels"
    /\ ~line.done
    /\ line' = Pull(line, WalkVoxelsNext(line.self))
    /\ UNCHANGED <<start, end, origin, unit, other>>

NextWalkVoxelsBothOther ==
    /\ line.kind = "WalkVoxels"
    /\ other.kind = "WalkVoxels"
    /\ line.done
    /\ ~other.done
    /\ other' = Pull(other, WalkVoxelsNext(other.self))
    /\ UNCHANGED <<start, end, origin, unit, line>>

SpecWalkVoxelsBoth ==
    InitWalkVoxelsBoth /\ [][NextWalkVoxelsBoth \/ NextWalkVoxelsBothOther]_vars

\* C11: WalkVoxels is symmetrical: for a fixed origin the voxels of
\* WalkVoxels::new(start, end, origin) are the voxels of
\* WalkVoxels::new(end, start, origin) in reverse order.
C11_WalkVoxelsSymmetrical ==
    (line.kind = "WalkVoxels" /\ other.kind = "WalkVoxels" /\ line.done /\ other.done) =>
        line.out = Reverse(other.out)

(***************************************************************************)
(* xiaolin_wu.rs                                                           *)
(*                                                                         *)
(* The f32 fields y and gradient and the emitted weights are kept as       *)
(* fractions in lowest terms, [n |-> numerator, d |-> denominator] with    *)
(* d > 0; d = 0 is a value that is not finite (n = 0: NaN, which is what   *)
(* the division 0.0 / 0.0 of XiaolinWu::new yields for start == end).      *)
(* The arithmetic is exact: it is the arithmetic of f32 wherever the       *)
(* gradient is a dyadic number (as in the test of xiaolin_wu.rs), and the  *)
(* code without rounding error elsewhere.  The endpoints are numerators    *)
(* over `unit`.                                                            *)
(***************************************************************************)
RECURSIVE Gcd(_, _)
Gcd(a, b) == IF b = 0 THEN a ELSE Gcd(b, a % b)

Fraction(n, d) ==
    IF d = 0 THEN [n |-> Signum(n), d |-> 0]
    ELSE LET g == Gcd(Abs(n), Abs(d)) * Signum(d)
         IN  [n |-> n \div g, d |-> d \div g]

NaN == [n |-> 0, d |-> 0]

\* a + b on f32
FractionAdd(a, b) ==
    IF a.d = 0 /\ b.d = 0 THEN (IF a.n = b.n THEN a ELSE NaN)
    ELSE IF a.d = 0 THEN a
    ELSE IF b.d = 0 THEN b
    ELSE Fraction(a.n * b.d + b.n * a.d, a.d * b.d)

\* y - y.floor(): infinity - infinity and NaN - NaN are NaN
FractionalPart(y) == IF y.d = 0 THEN NaN ELSE Fraction(y.n % y.d, y.d)

\* 1.0 - f for the f that FractionalPart yields
OneMinus(f) == IF f.d = 0 THEN NaN ELSE Fraction(f.d - f.n, f.d)

\* y as isize: towards zero, saturating at the ends of isize, NaN to 0
AsIsize(y) ==
    IF y.d = 0 THEN y.n * 2147483647
    ELSE IF y.n >= 0 THEN y.n \div y.d ELSE -((-y.n) \div y.d)

XiaolinWuNewUnsorted(s, e, u) ==
    LET steep == Abs(e[2] - s[2]) > Abs(e[1] - s[1])
        s1 == IF steep THEN << s[2], s[1] >> ELSE s
        e1 == IF steep THEN << e[2], e[1] >> ELSE e
        quotient == Fraction(e1[2] - s1[2], e1[1] - s1[1])
    IN  [steep |-> steep,
         gradient |-> IF quotient.d # 0 /\ quotient.n = 0 THEN Fraction(1, 1) ELSE quotient,
         x |-> Round(s1[1], u),
         y |-> Fraction(s1[2], u),
         end_x |-> Round(e1[1], u),
         lower |-> FALSE]

XiaolinWuNew(s, e, u) ==
    LET steep == Abs(e[2] - s[2]) > Abs(e[1] - s[1])
        s1 == IF steep THEN << s[2], s[1] >> ELSE s
        e1 == IF steep THEN << e[2], e[1] >> ELSE e
        s2 == IF s1[1] > e1[1] THEN e1 ELSE s1
        e2 == IF s1[1] > e1[1] THEN s1 ELSE e1
        quotient == Fraction(e2[2] - s2[2], e2[1] - s2[1])
    IN  [steep |-> steep,
         gradient |-> IF quotient.d # 0 /\ quotient.n = 0 THEN Fraction(1, 1) ELSE quotient,
         x |-> Round(s2[1], u),
         y |-> Fraction(s2[2], u),
         end_x |-> Round(e2[1], u),
         lower |-> FALSE]

\* XiaolinWu::next with the weight 1 - fpart on the upper pixel as well
XiaolinWuNextSameWeight(self) ==
    IF self.x <= self.end_x
    THEN LET fpart == FractionalPart(self.y)
             y == IF self.lower THEN AsIsize(self.y) + 1 ELSE AsIsize(self.y)
             point == IF self.steep THEN << y, self.x >> ELSE << self.x, y >>
             advanced == [self EXCEPT !.x = @ + 1, !.y = FractionAdd(@, self.gradient)]
         IN  IF self.lower
             THEN [self |-> [advanced EXCEPT !.lower = FALSE],
                   item |-> Some(<< point, OneMinus(fpart) >>)]
             ELSE [self |-> IF fpart.d # 0 /\ fpart.n > 0
                            THEN [self EXCEPT !.lower = TRUE]
                            ELSE advanced,
                   item |-> Some(<< point, OneMinus(fpart) >>)]
    ELSE [self |-> self, item |-> None]

\* XiaolinWu::next with the test fpart >= 0.0 in place of fpart > 0.0
XiaolinWuNextAlwaysTwo(self) ==
    IF self.x <= self.end_x
    THEN LET fpart == FractionalPart(self.y)
             y == IF self.lower THEN AsIsize(self.y) + 1 ELSE AsIsize(self.y)
             point == IF self.steep THEN << y, self.x >> ELSE << self.x, y >>
             advanced == [self EXCEPT !.x = @ + 1, !.y = FractionAdd(@, self.gradient)]
         IN  IF self.lower
             THEN [self |-> [advanced EXCEPT !.lower = FALSE],
                   item |-> Some(<< point, fpart >>)]
             ELSE [self |-> IF fpart.d # 0 /\ fpart.n >= 0
                            THEN [self EXCEPT !.lower = TRUE]
                            ELSE advanced,
                   item |-> Some(<< point, OneMinus(fpart) >>)]
    ELSE [self |-> self, item |-> None]

XiaolinWuNext(self) ==
    IF self.x <= self.end_x
    THEN LET fpart == FractionalPart(self.y)
             y == IF self.lower THEN AsIsize(self.y) + 1 ELSE AsIsize(self.y)
             point == IF self.steep THEN << y, self.x >> ELSE << self.x, y >>
             advanced == [self EXCEPT !.x = @ + 1, !.y = FractionAdd(@, self.gradient)]
         IN  IF self.lower
             THEN [self |-> [advanced EXCEPT !.lower = FALSE],
                   item |-> Some(<< point, fpart >>)]
             ELSE [self |-> IF fpart.d # 0 /\ fpart.n > 0
                            THEN [self EXCEPT !.lower = TRUE]
                            ELSE advanced,
                   item |-> Some(<< point, OneMinus(fpart) >>)]
    ELSE [self |-> self, item |-> None]

(***************************************************************************)
(* Specification: XiaolinWu::new(start, end) collected to the end, then    *)
(* XiaolinWu::new(end, start) collected to the end, for coordinates that   *)
(* are multiples of 1 / Denom and for the arguments of the test in         *)
(* xiaolin_wu.rs.                                                          *)
(***************************************************************************)
WuNumerators == (-MaxWu .. MaxWu) \X (-MaxWu .. MaxWu)

TestedLine ==
    /\ start = << 0, 0 >>
    /\ end = << 6, 3 >>
    /\ unit = 1

InitXiaolinWu ==
    /\ \/ /\ start \in WuNumerators
          /\ end \in WuNumerators
          /\ unit = Denom
       \/ TestedLine
    /\ origin = "None"
    /\ line = NewRun("XiaolinWu", XiaolinWuNew(start, end, unit))
    /\ other = NewRun("XiaolinWu", XiaolinWuNew(end, start, unit))

NextXiaolinWu ==
    /\ line.kind = "XiaolinWu"
    /\ ~line.done
    /\ line' = Pull(line, XiaolinWuNext(line.self))
    /\ UNCHANGED <<start, end, origin, unit, other>>

NextXiaolinWuOther ==
    /\ line.kind = "XiaolinWu"
    /\ other.kind = "XiaolinWu"
    /\ line.done
    /\ ~other.done
    /\ other' = Pull(other, XiaolinWuNext(other.self))
    /\ UNCHANGED <<start, end, origin, unit, line>>

SpecXiaolinWu == InitXiaolinWu /\ [][NextXiaolinWu \/ NextXiaolinWuOther]_vars

\* The column of an emitted item: its x in the transformed space, in which
\* the line is not steep.
Column(run, i) ==
    IF run.self.steep THEN run.out[i][1][2] ELSE run.out[i][1][1]

Weight(run, i) == run.out[i][2]

\* The i-th item is the only one of its column, and the column is finished.
AloneInColumn(run, i) ==
    /\ i = 1 \/ Column(run, i - 1) # Column(run, i)
    /\ IF i = Len(run.out) THEN run.done ELSE Column(run, i + 1) # Column(run, i)

C13_XiaolinWuSymmetrical ==
    (line.kind = "XiaolinWu" /\ other.kind = "XiaolinWu" /\ line.done /\ other.done) =>
        line.out = other.out

\* Both orders are finished for a segment that runs right to left (so that
\* new exchanges its ends) and emits several items.
C13_Witness ==
    /\ line.kind = "XiaolinWu"
    /\ other.kind = "XiaolinWu"
    /\ line.done
    /\ other.done
    /\ start[1] > end[1]
    /\ start[2] # end[2]
    /\ Len(other.out) > 2

\* The number of items a run emitted for the column x.
PointsInColumn(run, x) ==
    Cardinality({i \in 1 .. Len(run.out) : Column(run, i) = x})

\* C14 as stated: XiaolinWu produces exactly two points for every column of
\* the traversal, except possibly the very first and the very last one.
C14_TwoPointsPerInnerColumn ==
    (line.kind = "XiaolinWu" /\ line.done /\ line.out # << >>) =>
        \A x \in Column(line, 1) + 1 .. Column(line, Len(line.out)) - 1 :
            PointsInColumn(line, x) = 2

\* The end the traversal begins at, in the transformed space.
FirstEnd ==
    LET s == IF line.self.steep THEN << start[2], start[1] >> ELSE start
        e == IF line.self.steep THEN << end[2], end[1] >> ELSE end
    IN  IF s[1] > e[1] THEN e ELSE s

\* The y of the line k columns after the first one.
LineY(k) ==
    IF k = 0 THEN Fraction(FirstEnd[2], unit)
    ELSE FractionAdd(Fraction(FirstEnd[2], unit),
                     Fraction(k * line.self.gradient.n, line.self.gradient.d))

\* C14 amended: XiaolinWu produces exactly two points for every column in
\* which the y of the line is not a whole number, and exactly one point for
\* every column in which it is whole, the inner columns included.
C14_PointsPerColumn ==
    (line.kind = "XiaolinWu" /\ line.done) =>
        \A x \in Round(FirstEnd[1], unit) .. line.self.end_x :
            PointsInColumn(line, x) =
                IF FractionalPart(LineY(x - Round(FirstEnd[1], unit))).n = 0 THEN 1 ELSE 2

\* A finished run with an inner column of one point and an inner column of
\* two points.
C14_Witness ==
    /\ line.kind = "XiaolinWu"
    /\ line.done
    /\ line.out # << >>
    /\ \E x \in Column(line, 1) + 1 .. Column(line, Len(line.out)) - 1 :
          PointsInColumn(line, x) = 1
    /\ \E x \in Column(line, 1) + 1 .. Column(line, Len(line.out)) - 1 :
          PointsInColumn(line, x) = 2

(***************************************************************************)
(* midpoint.rs                                                             *)
(*                                                                         *)
(* The endpoints are numerators over `unit`.  The f32 fields a, b and k    *)
(* (and the local c) are kept as numerators over 2 * unit * unit, which    *)
(* holds a, b, c and b * 0.5 exactly; for the whole and half valued        *)
(* endpoints of the checked range it is the arithmetic of f32.             *)
(***************************************************************************)
octant(s, e) ==
    LET dx0 == e[1] - s[1]
        dy0 == e[2] - s[2]
        neg == dy0 < 0
        dx1 == IF neg THEN -dx0 ELSE dx0
        dy1 == IF neg THEN -dy0 ELSE dy0
        o1  == IF neg THEN 4 ELSE 0
        rot == dx1 < 0
        dx2 == IF rot THEN dy1 ELSE dx1
        dy2 == IF rot THEN -dx1 ELSE dy1
        o2  == IF rot THEN o1 + 2 ELSE o1
    IN  IF dx2 < dy2 THEN o2 + 1 ELSE o2

to_octant(o, point) ==
    CASE o = 0 -> << point[1], point[2] >>
      [] o = 1 -> << point[2], point[1] >>
      [] o = 2 -> << point[2], -point[1] >>
      [] o = 3 -> << -point[1], point[2] >>
      [] o = 4 -> << -point[1], -point[2] >>
      [] o = 5 -> << -point[2], -point[1] >>
      [] o = 6 -> << -point[2], point[1] >>
      [] o = 7 -> << point[1], -point[2] >>

from_octant(o, point) ==
    CASE o = 0 -> << point[1], point[2] >>
      [] o = 1 -> << point[2], point[1] >>
      [] o = 2 -> << -point[2], point[1] >>
      [] o = 3 -> << -point[1], point[2] >>
      [] o = 4 -> << -point[1], -point[2] >>
      [] o = 5 -> << -point[2], -point[1] >>
      [] o = 6 -> << point[2], -point[1] >>
      [] o = 7 -> << point[1], -point[2] >>

\* (n / d).round() as isize: halves away from zero, NaN to 0, saturating
RoundAsIsize(q) ==
    IF q.d = 0 THEN q.n * 2147483647 ELSE Round(q.n, q.d)

MidpointNew(s, e, orthogonal, u) ==
    LET o == octant(s, e)
        s1 == to_octant(o, s)
        e1 == to_octant(o, e)
        a == -(2 * u * (e1[2] - s1[2]))
        b == 2 * u * (e1[1] - s1[1])
        c == 2 * (s1[1] * e1[2] - e1[1] * s1[2])
        x == Round(s1[1], u)
        y == RoundAsIsize(Fraction((-a) * x - c, b))
    IN  [octant |-> o,
         a |-> a,
         b |-> b,
         x |-> x,
         y |-> y,
         k |-> a * (x + 1) + b * y + (b \div 2) + c,
         end_x |-> Round(e1[1], u),
         orthogonal |-> orthogonal,
         return_first |-> TRUE]

\* Midpoint::next with the test k >= 0.0 in place of k > 0.0
MidpointNextTieEast(self) ==
    IF self.return_first
    THEN [self |-> [self EXCEPT !.return_first = FALSE],
          item |-> Some(from_octant(self.octant, << self.x, self.y >>))]
    ELSE IF self.x < self.end_x
    THEN IF self.k >= 0
         THEN [self |-> [self EXCEPT !.x = @ + 1, !.k = @ + self.a],
               item |-> Some(from_octant(self.octant, << self.x + 1, self.y >>))]
         ELSE LET moved == [self EXCEPT !.x = @ + 1, !.y = @ + 1, !.k = @ + self.a + self.b]
              IN  IF self.orthogonal
                  THEN [self |-> [moved EXCEPT !.return_first = TRUE],
                        item |-> Some(from_octant(self.octant, << moved.x - 1, moved.y >>))]
                  ELSE [self |-> moved,
                        item |-> Some(from_octant(self.octant, << moved.x, moved.y >>))]
    ELSE [self |-> self, item |-> None]

\* Midpoint::next with the corner (self.x, self.y - 1) of an orthogonal NE
\* step in place of (self.x - 1, self.y)
MidpointNextCornerBelow(self) ==
    IF self.return_first
    THEN [self |-> [self EXCEPT !.return_first = FALSE],
          item |-> Some(from_octant(self.octant, << self.x, self.y >>))]
    ELSE IF self.x < self.end_x
    THEN IF self.k > 0
         THEN [self |-> [self EXCEPT !.x = @ + 1, !.k = @ + self.a],
               item |-> Some(from_octant(self.octant, << self.x + 1, self.y >>))]
         ELSE LET moved == [self EXCEPT !.x = @ + 1, !.y = @ + 1, !.k = @ + self.a + self.b]
              IN  IF self.orthogonal
                  THEN [self |-> [moved EXCEPT !.return_first = TRUE],
                        item |-> Some(from_octant(self.octant, << moved.x, moved.y - 1 >>))]
                  ELSE [self |-> moved,
                        item |-> Some(from_octant(self.octant, << moved.x, moved.y >>))]
    ELSE [self |-> self, item |-> None]

MidpointNext(self) ==
    IF self.return_first
    THEN [self |-> [self EXCEPT !.return_first = FALSE],
          item |-> Some(from_octant(self.octant, << self.x, self.y >>))]
    ELSE IF self.x < self.end_x
    THEN IF self.k > 0
         THEN [self |-> [self EXCEPT !.x = @ + 1, !.k = @ + self.a],
               item |-> Some(from_octant(self.octant, << self.x + 1, self.y >>))]
         ELSE LET moved == [self EXCEPT !.x = @ + 1, !.y = @ + 1, !.k = @ + self.a + self.b]
              IN  IF self.orthogonal
                  THEN [self |-> [moved EXCEPT !.return_first = TRUE],
                        item |-> Some(from_octant(self.octant, << moved.x - 1, moved.y >>))]
                  ELSE [self |-> moved,
                        item |-> Some(from_octant(self.octant, << moved.x, moved.y >>))]
    ELSE [self |-> self, item |-> None]

(***************************************************************************)
(* Specification: Midpoint::new(start, end, false) collected to the end,   *)
(* then Midpoint::new(start, end, true) collected to the end, for whole    *)
(* coordinates, for coordinates that are multiples of 1 / Denom, and for   *)
(* the arguments of the examples (0,0)->(6,3) and (0,0)->(-5,-5).          *)
(***************************************************************************)
TestedDiagonal ==
    /\ start = << 0, 0 >>
    /\ end = << -5, -5 >>
    /\ unit = 1

InitMidpoint ==
    /\ \/ /\ start \in Points
          /\ end \in Points
          /\ unit \in {1, Denom}
       \/ TestedLine
       \/ TestedDiagonal
    /\ origin = "None"
    /\ line = NewRun("Midpoint", MidpointNew(start, end, FALSE, unit))
    /\ other = NewRun("Midpoint", MidpointNew(start, end, TRUE, unit))

NextMidpoint ==
    /\ line.kind = "Midpoint"
    /\ ~line.done
    /\ line' = Pull(line, MidpointNext(line.self))
    /\ UNCHANGED <<start, end, origin, unit, other>>

NextMidpointOrthogonal ==
    /\ line.kind = "Midpoint"
    /\ other.kind = "Midpoint"
    /\ line.done
    /\ ~other.done
    /\ other' = Pull(other, MidpointNext(other.self))
    /\ UNCHANGED <<start, end, origin, unit, line>>

SpecMidpoint == InitMidpoint /\ [][NextMidpoint \/ NextMidpointOrthogonal]_vars

\* The arguments are whole numbers.
IntegerValued ==
    /\ start[1] % unit = 0
    /\ start[2] % unit = 0
    /\ end[1] % unit = 0
    /\ end[2] % unit = 0

\* The arguments as points of whole numbers.
StartPoint == << start[1] \div unit, start[2] \div unit >>

EndPoint == << end[1] \div unit, end[2] \div unit >>

\* C15: for integer-valued start # end, Midpoint without orthogonal steps
\* emits max(|dx|, |dy|) + 1 points, the first is start, the last is end,
\* consecutive points differ by exactly 1 along the major axis and by 0 or 1
\* along the minor axis; (0,0)->(6,3) yields (0,0), (1,1), (2,1), (3,2),
\* (4,2), (5,3), (6,3) and (0,0)->(-5,-5) yields the diagonal.
C15_MidpointPath ==
    (line.kind = "Midpoint" /\ line.done /\ IntegerValued /\ StartPoint # EndPoint) =>
        LET dx == EndPoint[1] - StartPoint[1]
            dy == EndPoint[2] - StartPoint[2]
            major == IF Abs(dx) >= Abs(dy) THEN 1 ELSE 2
            minor == 3 - major
        IN  /\ Len(line.out) = Max(Abs(dx), Abs(dy)) + 1
            /\ line.out[1] = StartPoint
            /\ line.out[Len(line.out)] = EndPoint
            /\ \A i \in 1 .. Len(line.out) - 1 :
                  /\ Abs(line.out[i + 1][major] - line.out[i][major]) = 1
                  /\ Abs(line.out[i + 1][minor] - line.out[i][minor]) <= 1
            /\ (StartPoint = << 0, 0 >> /\ EndPoint = << 6, 3 >>) =>
                  line.out = << << 0, 0 >>, << 1, 1 >>, << 2, 1 >>, << 3, 2 >>,
                                << 4, 2 >>, << 5, 3 >>, << 6, 3 >> >>
            /\ (StartPoint = << 0, 0 >> /\ dx = dy /\ dx < 0) =>
                  line.out = [i \in 1 .. 1 - dx |-> << 1 - i, 1 - i >>]

\* A finished run over a slanted segment that is neither diagonal nor
\* axis-aligned, whose first step meets the midpoint exactly (k = 0).
C15_Witness ==
    /\ line.kind = "Midpoint"
    /\ line.done
    /\ IntegerValued
    /\ StartPoint = << 0, 0 >>
    /\ EndPoint = << -1, 2 >>
    /\ Len(line.out) = 3

\* The number of unit steps between two points of the plane.
Manhattan(p, q) == Abs(p[1] - q[1]) + Abs(p[2] - q[2])

\* C16: for integer-valued start and end, Midpoint with orthogonal = true
\* emits a path that starts at start, ends at end, and in which every two
\* consecutive points differ by exactly 1 in exactly one coordinate;
\* (0,0)->(-5,-5) yields (0,0), (0,-1), (-1,-1), ..., (-4,-5), (-5,-5).
C16_MidpointOrthogonalPath ==
    (other.kind = "Midpoint" /\ other.done /\ IntegerValued) =>
        /\ other.out # << >>
        /\ other.out[1] = StartPoint
        /\ other.out[Len(other.out)] = EndPoint
        /\ \A i \in 1 .. Len(other.out) - 1 : Manhattan(other.out[i], other.out[i + 1]) = 1
        /\ (StartPoint = << 0, 0 >> /\ EndPoint = << -5, -5 >>) =>
              other.out = [i \in 1 .. 11 |-> << -((i - 1) \div 2), -(i \div 2) >>]

(***************************************************************************)
(* steps.rs                                                                *)
(*                                                                         *)
(* Steps is generic in its inner iterator; the inner iterator here is an   *)
(* iterator over a finite sequence, [items, position].                     *)
(***************************************************************************)
IteratorNew(items) == [items |-> items, position |-> 0]

IteratorNext(self) ==
    IF self.position < Len(self.items)
    THEN [self |-> [self EXCEPT !.position = @ + 1],
          item |-> Some(self.items[self.position + 1])]
    ELSE [self |-> self, item |-> None]

StepsNew(iterator) ==
    LET first == IteratorNext(iterator)
    IN  [iterator |-> first.self, prev |-> first.item]

\* Steps::next without the assignment self.prev = Some(next)
StepsNextKeepPrev(self) ==
    LET next == IteratorNext(self.iterator)
        advanced == [self EXCEPT !.iterator = next.self]
    IN  IF next.item = None \/ self.prev = None
        THEN [self |-> advanced, item |-> None]
        ELSE [self |-> advanced,
              item |-> Some(<< self.prev[1], next.item[1] >>)]

StepsNext(self) ==
    LET next == IteratorNext(self.iterator)
        advanced == [self EXCEPT !.iterator = next.self]
    IN  IF next.item = None \/ self.prev = None
        THEN [self |-> advanced, item |-> None]
        ELSE [self |-> [advanced EXCEPT !.prev = next.item],
              item |-> Some(<< self.prev[1], next.item[1] >>)]

(***************************************************************************)
(* Specification: Steps::new(iterator) collected to the end, for the inner *)
(* sequences `start` of at most MaxInner whole numbers and for the points  *)
(* of the test in steps.rs.                                                *)
(***************************************************************************)
RECURSIVE SequencesUpTo(_)
SequencesUpTo(n) ==
    IF n = 0 THEN {<< >>}
    ELSE LET shorter == SequencesUpTo(n - 1)
         IN  shorter \cup {Append(s, c) : s \in shorter, c \in Coords}

TestedSteps ==
    start = << << 0, 0 >>, << 1, 1 >>, << 2, 2 >>, << 2, 3 >>, << 3, 4 >> >>

InitSteps ==
    /\ \/ start \in SequencesUpTo(MaxInner)
       \/ TestedSteps
    /\ end = << >>
    /\ origin = "None"
    /\ unit = 1
    /\ line = NewRun("Steps", StepsNew(IteratorNew(start)))
    /\ other = NoRun

NextSteps ==
    /\ line.kind = "Steps"
    /\ ~line.done
    /\ line' = Pull(line, StepsNext(line.self))
    /\ UNCHANGED <<start, end, origin, unit, other>>

SpecSteps == InitSteps /\ [][NextSteps]_vars

\* C17: for an inner sequence p0, ..., p(n-1), Steps yields exactly the n - 1
\* pairs (p0,p1), (p1,p2), ..., (p(n-2),p(n-1)) in this order, and nothing
\* when n is 0 or 1.
C17_StepsPairs ==
    (line.kind = "Steps" /\ line.done) =>
        /\ line.out = [i \in 1 .. Len(start) - 1 |-> << start[i], start[i + 1] >>]
        /\ Len(start) <= 1 => line.out = << >>
        /\ \A i \in 1 .. Len(line.out) - 1 : line.out[i][2] = line.out[i + 1][1]

\* A finished run over three different values.
C17_Witness ==
    /\ line.kind = "Steps"
    /\ line.done
    /\ Len(start) = 3
    /\ start[1] # start[2]
    /\ start[2] # start[3]
    /\ start[1] # start[3]
    /\ Len(line.out) = 2

(***************************************************************************)
(* Specification: the octant of (start, end) and the images of start and   *)
(* end in it, computed as Bresenham::new does with the Octant struct       *)
(* (line) and as Midpoint::new does with octant and to_octant (other).     *)
(***************************************************************************)
InitOctant ==
    /\ start \in Points
    /\ end \in Points
    /\ origin = "None"
    /\ unit = 1
    /\ line = NewRun("Octant", [value |-> OctantNew(start, end)])
    /\ other = NewRun("octant", [octant |-> octant(start, end)])

\* let start = octant.to(start); let end = octant.to(end);
NextOctantTo ==
    /\ line.kind = "Octant"
    /\ ~line.done
    /\ line' = IF Len(line.out) = 0
               THEN [line EXCEPT !.out = << OctantTo(line.self.value, start) >>]
               ELSE [line EXCEPT !.out = Append(@, OctantTo(line.self.value, end)),
                                 !.done = TRUE]
    /\ UNCHANGED <<start, end, origin, unit, other>>

\* let start = to_octant(octant, start); let end = to_octant(octant, end);
NextToOctant ==
    /\ other.kind = "octant"
    /\ line.done
    /\ ~other.done
    /\ other' = IF Len(other.out) = 0
                THEN [other EXCEPT !.out = << to_octant(other.self.octant, start) >>]
                ELSE [other EXCEPT !.out = Append(@, to_octant(other.self.octant, end)),
                                   !.done = TRUE]
    /\ UNCHANGED <<start, end, origin, unit, line>>

SpecOctant == InitOctant /\ [][NextOctantTo \/ NextToOctant]_vars

\* dx >= 0, dy >= 0 and dx >= dy for the difference of two images
InFirstOctant(from, to) ==
    /\ to[1] - from[1] >= 0
    /\ to[2] - from[2] >= 0
    /\ to[1] - from[1] >= to[2] - from[2]

\* C18: with tag = Octant::new(start, end), the delta (dx, dy) =
\* to(end) - to(start) satisfies dx >= 0, dy >= 0 and dx >= dy, and a zero
\* delta yields the tag 0; the same for octant and to_octant of midpoint.rs.
C18_OctantNormalises ==
    /\ (line.kind = "Octant" /\ line.done) =>
          /\ InFirstOctant(line.out[1], line.out[2])
          /\ start = end => line.self.value = 0
    /\ (other.kind = "octant" /\ other.done) =>
          /\ InFirstOctant(other.out[1], other.out[2])
          /\ start = end => other.self.octant = 0

\* Both computations are finished for a segment of the octant 6, where the
\* delta is rotated after it is negated.
C18_Witness ==
    /\ line.kind = "Octant"
    /\ line.done
    /\ other.kind = "octant"
    /\ other.done
    /\ start = << 0, 0 >>
    /\ end = << 1, -2 >>
    /\ line.self.value = 6
    /\ other.self.octant = 6

(***************************************************************************)
(* Specification: a point `start` taken to an octant and back (line) and   *)
(* from an octant and forth (other), by Octant::to and Octant::from or by  *)
(* to_octant and from_octant of midpoint.rs, for each of the 8 tags.       *)
(***************************************************************************)
InitRoundTrip ==
    /\ start \in Points
    /\ end = << >>
    /\ origin = "None"
    /\ unit = 1
    /\ \E tag \in 0 .. 7, kind \in {"Octant::to", "to_octant"} :
          /\ line = NewRun(kind, [value |-> tag])
          /\ other = NewRun(kind, [value |-> tag])

\* octant.from(octant.to(start)), then octant.to(octant.from(start))
NextOctantRoundTrip ==
    /\ line.kind = "Octant::to"
    /\ ~other.done
    /\ IF ~line.done
       THEN /\ line' = IF Len(line.out) = 0
                       THEN [line EXCEPT !.out = << OctantTo(line.self.value, start) >>]
                       ELSE [line EXCEPT !.out = Append(@, OctantFrom(line.self.value, @[1])),
                                         !.done = TRUE]
            /\ UNCHANGED other
       ELSE /\ other' = IF Len(other.out) = 0
                        THEN [other EXCEPT !.out = << OctantFrom(other.self.value, start) >>]
                        ELSE [other EXCEPT !.out = Append(@, OctantTo(other.self.value, @[1])),
                                           !.done = TRUE]
            /\ UNCHANGED line
    /\ UNCHANGED <<start, end, origin, unit>>

\* from_octant(o, to_octant(o, start)), then to_octant(o, from_octant(o, start))
NextMidpointRoundTrip ==
    /\ line.kind = "to_octant"
    /\ ~other.done
    /\ IF ~line.done
       THEN /\ line' = IF Len(line.out) = 0
                       THEN [line EXCEPT !.out = << to_octant(line.self.value, start) >>]
                       ELSE [line EXCEPT !.out = Append(@, from_octant(line.self.value, @[1])),
                                         !.done = TRUE]
            /\ UNCHANGED other
       ELSE /\ other' = IF Len(other.out) = 0
                        THEN [other EXCEPT !.out = << from_octant(other.self.value, start) >>]
                        ELSE [other EXCEPT !.out = Append(@, to_octant(other.self.value, @[1])),
                                           !.done = TRUE]
            /\ UNCHANGED line
    /\ UNCHANGED <<start, end, origin, unit>>

SpecRoundTrip == InitRoundTrip /\ [][NextOctantRoundTrip \/ NextMidpointRoundTrip]_vars

\* C19: for each of the 8 tags and every point p, from(tag, to(tag, p)) = p
\* and to(tag, from(tag, p)) = p, for the Octant struct and for to_octant
\* and from_octant of midpoint.rs.
C19_OctantRoundTrip ==
    line.kind \in {"Octant::to", "to_octant"} =>
        /\ line.done => line.out[2] = start
        /\ other.done => other.out[2] = start

\* Both round trips are finished for a tag whose two tables differ and a
\* point off the axes and off the diagonals, with each kind of function.
C19_Witness ==
    /\ line.kind = "Octant::to"
    /\ line.done
    /\ other.done
    /\ line.self.value = 2
    /\ start = << 1, 2 >>
    /\ line.out = << << 2, -1 >>, << 1, 2 >> >>
    /\ other.out = << << -2, 1 >>, << 1, 2 >> >>

(***************************************************************************)
(* bresenham_circle.rs                                                     *)
(***************************************************************************)
BresenhamCircleNew(center_x, center_y, radius) ==
    [x |-> -radius,
     y |-> 0,
     center_x |-> center_x,
     center_y |-> center_y,
     radius |-> radius,
     error |-> 2 - 2 * radius,
     quadrant |-> 1]

BresenhamCirclePoint(self) ==
    CASE self.quadrant = 1 -> << self.center_x - self.x, self.center_y + self.y >>
      [] self.quadrant = 2 -> << self.center_x - self.y, self.center_y - self.x >>
      [] self.quadrant = 3 -> << self.center_x + self.x, self.center_y - self.y >>
      [] self.quadrant = 4 -> << self.center_x + self.y, self.center_y + self.x >>

\* The update of the variables after each set of quadrants.
BresenhamCircleUpdate(self) ==
    LET s1 == [self EXCEPT !.radius = self.error]
        s2 == IF s1.radius <= s1.y
              THEN [s1 EXCEPT !.y = @ + 1, !.error = @ + (s1.y + 1) * 2 + 1]
              ELSE s1
    IN  IF s2.radius > s2.x \/ s2.error > s2.y
        THEN [s2 EXCEPT !.x = @ + 1, !.error = @ + (s2.x + 1) * 2 + 1]
        ELSE s2

\* BresenhamCircle::next with the update of the variables after the third
\* quadrant
BresenhamCircleNextEarlyUpdate(self) ==
    IF self.x < 0
    THEN LET updated == IF self.quadrant = 3 THEN BresenhamCircleUpdate(self) ELSE self
         IN  [self |-> [updated EXCEPT !.quadrant = (self.quadrant % 4) + 1],
              item |-> Some(BresenhamCirclePoint(self))]
    ELSE [self |-> self, item |-> None]

\* BresenhamCircle::next with the test x <= 0 in place of x < 0
BresenhamCircleNextInclusive(self) ==
    IF self.x <= 0
    THEN LET updated == IF self.quadrant = 4 THEN BresenhamCircleUpdate(self) ELSE self
         IN  [self |-> [updated EXCEPT !.quadrant = (self.quadrant % 4) + 1],
              item |-> Some(BresenhamCirclePoint(self))]
    ELSE [self |-> self, item |-> None]

BresenhamCircleNext(self) ==
    IF self.x < 0
    THEN LET updated == IF self.quadrant = 4 THEN BresenhamCircleUpdate(self) ELSE self
         IN  [self |-> [updated EXCEPT !.quadrant = (self.quadrant % 4) + 1],
              item |-> Some(BresenhamCirclePoint(self))]
    ELSE [self |-> self, item |-> None]

(***************************************************************************)
(* bresenham_ellipse.rs                                                    *)
(***************************************************************************)
BresenhamEllipseNew(center_x, center_y, radius_x, radius_y) ==
    [x |-> radius_x,
     y |-> 0,
     center_x |-> center_x,
     center_y |-> center_y,
     radius_x |-> radius_x,
     radius_y |-> radius_y,
     delta_x |-> radius_y * radius_y * (1 - 2 * radius_x),
     delta_y |-> radius_x * radius_x,
     error |-> 0,
     quadrant |-> 1,
     radius_x_squared_doubled |-> 2 * radius_x * radius_x,
     radius_y_squared_doubled |-> 2 * radius_y * radius_y,
     end_x |-> 2 * radius_y * radius_y * radius_x,
     end_y |-> 0,
     first_region |-> TRUE]

BresenhamEllipsePoint(self) ==
    CASE self.quadrant = 1 -> << self.center_x + self.x, self.center_y + self.y >>
      [] self.quadrant = 2 -> << self.center_x - self.x, self.center_y + self.y >>
      [] self.quadrant = 3 -> << self.center_x - self.x, self.center_y - self.y >>
      [] self.quadrant = 4 -> << self.center_x + self.x, self.center_y - self.y >>

\* First region: the update of the variables after each set of quadrants.
FirstRegionUpdate(self) ==
    LET s1 == [self EXCEPT !.y = @ + 1,
                           !.end_y = @ + self.radius_x_squared_doubled,
                           !.error = @ + self.delta_y,
                           !.delta_y = @ + self.radius_x_squared_doubled]
    IN  IF s1.error * 2 + s1.delta_x > 0
        THEN [s1 EXCEPT !.x = @ - 1,
                        !.end_x = @ - s1.radius_y_squared_doubled,
                        !.error = @ + s1.delta_x,
                        !.delta_x = @ + s1.radius_y_squared_doubled]
        ELSE s1

\* The variables set a single time for the second region.
SecondRegionStart(self) ==
    [self EXCEPT !.first_region = FALSE,
                 !.x = 0,
                 !.y = self.radius_y,
                 !.delta_x = self.radius_y * self.radius_y,
                 !.delta_y = self.radius_x * self.radius_x * (1 - 2 * self.radius_y),
                 !.error = 0,
                 !.end_x = 0,
                 !.end_y = self.radius_x_squared_doubled * self.radius_y]

\* Second region: the update of the variables after each set of quadrants.
SecondRegionUpdate(self) ==
    LET s1 == [self EXCEPT !.x = @ + 1,
                           !.end_x = @ + self.radius_y_squared_doubled,
                           !.error = @ + self.delta_x,
                           !.delta_x = @ + self.radius_y_squared_doubled]
    IN  IF s1.error * 2 + s1.delta_y > 0
        THEN [s1 EXCEPT !.y = @ - 1,
                        !.end_y = @ - s1.radius_x_squared_doubled,
                        !.error = @ + s1.delta_y,
                        !.delta_y = @ + s1.radius_x_squared_doubled]
        ELSE s1

BresenhamEllipseNext(self) ==
    IF self.first_region /\ self.end_x >= self.end_y
    THEN LET updated == IF self.quadrant = 4 THEN FirstRegionUpdate(self) ELSE self
         IN  [self |-> [updated EXCEPT !.quadrant = (self.quadrant % 4) + 1],
              item |-> Some(BresenhamEllipsePoint(self))]
    ELSE IF self.end_x <= self.end_y
    THEN LET second == IF self.first_region THEN SecondRegionStart(self) ELSE self
             updated == IF second.quadrant = 4 THEN SecondRegionUpdate(second) ELSE second
         IN  [self |-> [updated EXCEPT !.quadrant = (second.quadrant % 4) + 1],
              item |-> Some(BresenhamEllipsePoint(second))]
    ELSE [self |-> self, item |-> None]

(***************************************************************************)
(* Specification: BresenhamCircle::new(cx, cy, rx) collected to the end,   *)
(* then BresenhamEllipse::new(cx, cy, rx, ry) collected to the end or to   *)
(* MaxEmitted points, with start = (cx, cy) and end = (rx, ry); for        *)
(* centers within MaxCenter of the origin and radii up to MaxRadius, and   *)
(* for the arguments of the test in bresenham_ellipse.rs.                  *)
(***************************************************************************)
Centers == (-MaxCenter .. MaxCenter) \X (-MaxCenter .. MaxCenter)

Radii == (0 .. MaxRadius) \X (0 .. MaxRadius)

TestedEllipse ==
    /\ start = << 50, 50 >>
    /\ end = << 10, 15 >>

InitCircle ==
    /\ \/ /\ start \in Centers
          /\ end \in Radii
       \/ TestedEllipse
    /\ origin = "None"
    /\ unit = 1
    /\ line = NewRun("BresenhamCircle", BresenhamCircleNew(start[1], start[2], end[1]))
    /\ other = NewRun("BresenhamEllipse",
                      BresenhamEllipseNew(start[1], start[2], end[1], end[2]))

NextCircle ==
    /\ line.kind = "BresenhamCircle"
    /\ ~line.done
    /\ line' = Pull(line, BresenhamCircleNext(line.self))
    /\ UNCHANGED <<start, end, origin, unit, other>>

NextEllipse ==
    /\ line.kind = "BresenhamCircle"
    /\ other.kind = "BresenhamEllipse"
    /\ line.done
    /\ ~other.done
    /\ Len(other.out) < MaxEmitted
    /\ other' = Pull(other, BresenhamEllipseNext(other.self))
    /\ UNCHANGED <<start, end, origin, unit, line>>

SpecCircle == InitCircle /\ [][NextCircle \/ NextEllipse]_vars

\* The point at the offset d from the center `start`.
Around(d) == << start[1] + d[1], start[2] + d[2] >>

\* The offset of an emitted point from the center `start`.
Offset(p) == << p[1] - start[1], p[2] - start[2] >>

\* The first item of the aligned group of 4 that the i-th item belongs to.
GroupStart(i) == 4 * ((i - 1) \div 4) + 1

\* C20: for BresenhamCircle and BresenhamEllipse the number of emitted
\* points is a multiple of 4, and each aligned group of 4 emissions holds
\* the 4 symmetric images of one computed offset about the center: for the
\* circle center+(a,b), center+(-b,a), center+(-a,-b), center+(b,-a), for
\* the ellipse center+(x,y), center+(-x,y), center+(-x,-y), center+(x,-y);
\* the offset only changes after the 4th emission.  The circle of radius 1
\* at the origin yields (1,0), (0,1), (-1,0), (0,-1).
C20_FourSymmetricImages ==
    line.kind = "BresenhamCircle" =>
        /\ line.done => Len(line.out) % 4 = 0
        /\ other.done => Len(other.out) % 4 = 0
        /\ \A i \in 1 .. Len(line.out) :
              LET d == Offset(line.out[GroupStart(i)])
              IN  line.out[i] =
                      CASE i % 4 = 1 -> Around(<< d[1], d[2] >>)
                        [] i % 4 = 2 -> Around(<< -d[2], d[1] >>)
                        [] i % 4 = 3 -> Around(<< -d[1], -d[2] >>)
                        [] i % 4 = 0 -> Around(<< d[2], -d[1] >>)
        /\ \A i \in 1 .. Len(other.out) :
              LET d == Offset(other.out[GroupStart(i)])
              IN  other.out[i] =
                      CASE i % 4 = 1 -> Around(<< d[1], d[2] >>)
                        [] i % 4 = 2 -> Around(<< -d[1], d[2] >>)
                        [] i % 4 = 3 -> Around(<< -d[1], -d[2] >>)
                        [] i % 4 = 0 -> Around(<< d[1], -d[2] >>)
        /\ Len(line.out) % 4 # 0 =>
              Offset(line.out[GroupStart(Len(line.out))]) = << -line.self.x, line.self.y >>
        /\ Len(other.out) % 4 # 0 =>
              Offset(other.out[GroupStart(Len(other.out))]) = << other.self.x, other.self.y >>
        /\ (line.done /\ start = << 0, 0 >> /\ end[1] = 1) =>
              line.out = << << 1, 0 >>, << 0, 1 >>, << -1, 0 >>, << 0, -1 >> >>

\* A finished circle of several groups and a finished ellipse of unequal
\* radii that went through both of its regions, about a center off the
\* origin.
C20_Witness ==
    /\ line.kind = "BresenhamCircle"
    /\ line.done
    /\ other.done
    /\ start = << 1, -1 >>
    /\ end = << 3, 2 >>
    /\ Len(line.out) >= 12
    /\ Len(other.out) >= 12
    /\ ~other.self.first_region
    /\ other.out[5] # other.out[1]

\* C21: for all radii radius_x >= 0 and radius_y >= 0, BresenhamEllipse is a
\* finite sequence: after finitely many next() calls (here: before
\* MaxEmitted points are emitted) it returns end-of-sequence.
C21_EllipseFinite ==
    (other.kind = "BresenhamEllipse" /\ end[1] >= 0 /\ end[2] >= 0) =>
        Len(other.out) < MaxEmitted

(***************************************************************************)
(* Specification: the first next() call of each traversal, for whole       *)
(* valued arguments: points of the plane for Bresenham, WalkGrid,          *)
(* Supercover and XiaolinWu, voxels for Bresenham3d and WalkVoxels, a      *)
(* center `start` and radii `end` for BresenhamCircle and                  *)
(* BresenhamEllipse.                                                       *)
(***************************************************************************)
InitFirst ==
    /\ unit = 1
    /\ \/ /\ start \in Points
          /\ end \in Points
          /\ origin = "None"
          /\ line \in {NewRun("Bresenham", BresenhamNew(start, end)),
                       NewRun("WalkGrid", WalkGridNew(start, end)),
                       NewRun("Supercover", SupercoverNew(start, end)),
                       NewRun("XiaolinWu", XiaolinWuNew(start, end, unit))}
       \/ /\ start \in StartVoxels
          /\ end \in EndVoxels
          /\ \/ /\ origin = "None"
                /\ line = NewRun("Bresenham3d", Bresenham3dNew(start, end))
             \/ /\ origin \in {"Corner", "Center"}
                /\ line = NewRun("WalkVoxels", WalkVoxelsNew(start, end, origin, unit))
       \/ /\ start \in Centers
          /\ end \in Radii
          /\ origin = "None"
          /\ line \in {NewRun("BresenhamCircle",
                              BresenhamCircleNew(start[1], start[2], end[1])),
                       NewRun("BresenhamEllipse",
                              BresenhamEllipseNew(start[1], start[2], end[1], end[2]))}
    /\ other = NoRun

\* iterator.next() for the iterator of a run
IteratorOfRunNext(run) ==
    CASE run.kind = "Bresenham" -> BresenhamNext(run.self)
      [] run.kind = "WalkGrid" -> WalkGridNext(run.self)
      [] run.kind = "Supercover" -> SupercoverNext(run.self)
      [] run.kind = "XiaolinWu" -> XiaolinWuNext(run.self)
      [] run.kind = "Bresenham3d" -> Bresenham3dNext(run.self)
      [] run.kind = "WalkVoxels" -> WalkVoxelsNext(run.self)
      [] run.kind = "BresenhamCircle" -> BresenhamCircleNext(run.self)
      [] run.kind = "BresenhamEllipse" -> BresenhamEllipseNext(run.self)
      [] run.kind = "Midpoint" -> MidpointNext(run.self)

NextFirst ==
    /\ other = NoRun
    /\ ~line.done
    /\ line.out = << >>
    /\ line' = Pull(line, IteratorOfRunNext(line))
    /\ UNCHANGED <<start, end, origin, unit, other>>

SpecFirst == InitFirst /\ [][NextFirst]_vars

\* C22: every traversal emits at least one point: for whole valued
\* arguments, start == end and radius 0 included, the first next() call of
\* Bresenham, Bresenham3d, WalkGrid, Supercover, WalkVoxels, XiaolinWu,
\* BresenhamCircle and BresenhamEllipse returns a point, which is the start
\* point for the line traversals.
C22_FirstPoint ==
    other = NoRun =>
        /\ ~line.done
        /\ (line.out # << >> /\ line.kind \in {"Bresenham", "WalkGrid", "Supercover",
                                              "Bresenham3d", "WalkVoxels"}) =>
              line.out[1] = start
        /\ (line.out # << >> /\ line.kind = "XiaolinWu") => line.out[1][1] = start

(***************************************************************************)
(* Specification: Bresenham::new(start, end) collected to the end, then    *)
(* Bresenham::new(end, start) collected to the end, as                     *)
(* bresenham_not_symmetrical in fuzzing.rs does, for the points of the     *)
(* checked range and for the pair (0,0), (5,3) of bresenham_tests.         *)
(***************************************************************************)
TestedPair ==
    /\ start = << 0, 0 >>
    /\ end = << 5, 3 >>

InitBresenhamBoth ==
    /\ \/ /\ start \in Points
          /\ end \in Points
       \/ TestedPair
    /\ origin = "None"
    /\ unit = 1
    /\ line = NewRun("Bresenham", BresenhamNew(start, end))
    /\ other = NewRun("Bresenham", BresenhamNew(end, start))

NextBresenhamBoth ==
    /\ line.kind = "Bresenham"
    /\ other.kind = "Bresenham"
    /\ ~line.done
    /\ line' = Pull(line, BresenhamNext(line.self))
    /\ UNCHANGED <<start, end, origin, unit, other>>

NextBresenhamBothOther ==
    /\ line.kind = "Bresenham"
    /\ other.kind = "Bresenham"
    /\ line.done
    /\ ~other.done
    /\ other' = Pull(other, BresenhamNext(other.self))
    /\ UNCHANGED <<start, end, origin, unit, line>>

SpecBresenhamBoth ==
    InitBresenhamBoth /\ [][NextBresenhamBoth \/ NextBresenhamBothOther]_vars

\* C23: Bresenham is asymmetric on a = (0,0), b = (5,3): the sequence of
\* Bresenham::new(a, b) differs from the reverse of the sequence of
\* Bresenham::new(b, a), although both have the same length and the same
\* endpoints.
C23_BresenhamAsymmetric ==
    (line.kind = "Bresenham" /\ other.kind = "Bresenham" /\ TestedPair
         /\ line.done /\ other.done) =>
        /\ line.out # Reverse(other.out)
        /\ Len(line.out) = Len(other.out)
        /\ line.out[1] = other.out[Len(other.out)]
        /\ line.out[Len(line.out)] = other.out[1]

\* Both orders of the pair are finished.
C23_Witness ==
    /\ line.kind = "Bresenham"
    /\ other.kind = "Bresenham"
    /\ TestedPair
    /\ line.done
    /\ other.done
    /\ Len(line.out) = 6
    /\ Len(other.out) = 6

(***************************************************************************)
(* lib.rs: sort, walk_grid and sorted_walk_grid.                           *)
(*                                                                         *)
(* walk_grid is followed one iteration of its while loop at a time: the    *)
(* run holds its local variables, and `out` is its vector `points`.        *)
(***************************************************************************)
\* sort that never reports a reordering
sort_unflagged(a, b) ==
    IF a[2] > b[2]
    THEN [start |-> b, end |-> a, reordered |-> FALSE]
    ELSE [start |-> a, end |-> b, reordered |-> FALSE]

sort(a, b) ==
    IF a[2] > b[2]
    THEN [start |-> b, end |-> a, reordered |-> TRUE]
    ELSE [start |-> a, end |-> b, reordered |-> FALSE]

\* The local variables of walk_grid(s, e) when its loop is entered.
walk_grid(s, e) ==
    LET dx == e[1] - s[1]
        dy == e[2] - s[2]
    IN  [start |-> s,
         nx |-> Abs(dx),
         ny |-> Abs(dy),
         sign_x |-> IF dx > 0 THEN 1 ELSE -1,
         sign_y |-> IF dy > 0 THEN 1 ELSE -1,
         ix |-> 0,
         iy |-> 0]

\* One test of the loop condition of walk_grid, and one iteration.
walk_grid_loop(self) ==
    IF self.ix < self.nx \/ self.iy < self.ny
    THEN LET stepped ==
                 IF RatioLess(Ratio(self.ix, self.nx), Ratio(self.iy, self.ny))
                 THEN [self EXCEPT !.start = << @[1] + self.sign_x, @[2] >>,
                                   !.ix = @ + 1]
                 ELSE [self EXCEPT !.start = << @[1], @[2] + self.sign_y >>,
                                   !.iy = @ + 1]
         IN  [self |-> stepped, item |-> Some(stepped.start)]
    ELSE [self |-> self, item |-> None]

\* sorted_walk_grid(s, e) up to the call of walk_grid and its first push.
sorted_walk_grid(s, e) ==
    LET sorted == sort(s, e)
    IN  [kind |-> "sorted_walk_grid",
         self |-> walk_grid(sorted.start, sorted.end),
         out |-> << sorted.start >>,
         done |-> FALSE,
         reordered |-> sorted.reordered]

\* What sorted_walk_grid returns when walk_grid has returned.
sorted_walk_grid_result(run) ==
    IF run.reordered THEN Reverse(run.out) ELSE run.out

(***************************************************************************)
(* Specification: sorted_walk_grid(start, end), then                       *)
(* sorted_walk_grid(end, start).                                           *)
(***************************************************************************)
InitSortedWalkGrid ==
    /\ start \in Points
    /\ end \in Points
    /\ origin = "None"
    /\ unit = 1
    /\ line = sorted_walk_grid(start, end)
    /\ other = sorted_walk_grid(end, start)

NextSortedWalkGrid ==
    /\ line.kind = "sorted_walk_grid"
    /\ ~line.done
    /\ line' = Pull(line, walk_grid_loop(line.self))
    /\ UNCHANGED <<start, end, origin, unit, other>>

NextSortedWalkGridOther ==
    /\ line.kind = "sorted_walk_grid"
    /\ line.done
    /\ ~other.done
    /\ other' = Pull(other, walk_grid_loop(other.self))
    /\ UNCHANGED <<start, end, origin, unit, line>>

SpecSortedWalkGrid ==
    InitSortedWalkGrid /\ [][NextSortedWalkGrid \/ NextSortedWalkGridOther]_vars

\* C24: for all pairs of points (a, b), pairs of equal y included,
\* sorted_walk_grid(a, b) equals the reverse of sorted_walk_grid(b, a).
C24_SortedWalkGridSymmetrical ==
    (line.kind = "sorted_walk_grid" /\ line.done /\ other.done) =>
        /\ sorted_walk_grid_result(line) = Reverse(sorted_walk_grid_result(other))
        /\ sorted_walk_grid_result(line)[1] = start
        /\ sorted_walk_grid_result(other)[1] = end

\* Both calls have returned for a slanted pair that sort exchanges.
C24_Witness ==
    /\ line.kind = "sorted_walk_grid"
    /\ line.done
    /\ other.done
    /\ line.reordered
    /\ ~other.reordered
    /\ start = << 2, 1 >>
    /\ end = << -1, -1 >>
    /\ Len(line.out) = 6

\* The points from s to e, one cell at a time, for s and e on a common row
\* or column.
StraightPath(s, e) ==
    [i \in 1 .. Abs(e[1] - s[1]) + Abs(e[2] - s[2]) + 1 |->
        << s[1] + (i - 1) * Signum(e[1] - s[1]), s[2] + (i - 1) * Signum(e[2] - s[2]) >>]

\* C25: when exactly one of dx, dy is zero, WalkGrid and Supercover step
\* purely along the other axis and emit the n + 1 pairwise distinct points
\* that advance one cell at a time from start to end (n the non-zero
\* |delta|); when start == end each emits the single point start.
C25_ZeroLengthAxis ==
    (line.kind = "WalkGrid" /\ other.kind = "Supercover"
         /\ (start[1] = end[1] \/ start[2] = end[2])) =>
        /\ line.done => line.out = StraightPath(start, end)
        /\ other.done => other.out = StraightPath(start, end)

\* The fields of a WalkVoxels per axis (1 = x, 2 = y, 3 = z).
SignOf(self, a) ==
    CASE a = 1 -> self.sign_x [] a = 2 -> self.sign_y [] a = 3 -> self.sign_z

ErrOf(self, a) ==
    CASE a = 1 -> self.err_x [] a = 2 -> self.err_y [] a = 3 -> self.err_z

\* The axes the last next() call of a run moved the voxel along.
SteppedAxes(run) ==
    {a \in 1 .. 3 : run.self.voxel[a] # run.out[Len(run.out)][a]}

\* The WalkVoxels of a run as it was before its last next() call that
\* returned a voxel: the step along an axis added d_err to its error.
BeforeLastStep(run) ==
    [run.self EXCEPT
        !.err_x = IF 1 \in SteppedAxes(run) THEN @ - run.self.d_err_x ELSE @,
        !.err_y = IF 2 \in SteppedAxes(run) THEN @ - run.self.d_err_y ELSE @,
        !.err_z = IF 3 \in SteppedAxes(run) THEN @ - run.self.d_err_z ELSE @]

\* The axes of non-zero direction whose error magnitude is the smallest.
TiedAxes(self) ==
    LET moving == {a \in 1 .. 3 : SignOf(self, a) # 0}
    IN  {a \in moving : \A b \in moving : Abs(ErrOf(self, a)) <= Abs(ErrOf(self, b))}

\* C26 as stated: when two or more axes of non-zero direction have the same
\* smallest error magnitude, WalkVoxels::next steps along the first of them
\* in the order x, y, z.
C26_TieFirstAxis ==
    (line.kind = "WalkVoxels" /\ line.out # << >>
         /\ Cardinality(TiedAxes(BeforeLastStep(line))) >= 2) =>
        SteppedAxes(line) =
            {CHOOSE a \in TiedAxes(BeforeLastStep(line)) :
                \A b \in TiedAxes(BeforeLastStep(line)) : a <= b}

\* C26 amended: when two or more axes of non-zero direction have the same
\* smallest error magnitude, WalkVoxels::next steps along the last of them
\* in the order x, y, z.
C26_TieLastAxis ==
    (line.kind = "WalkVoxels" /\ line.out # << >>
         /\ Cardinality(TiedAxes(BeforeLastStep(line))) >= 2) =>
        SteppedAxes(line) =
            {CHOOSE a \in TiedAxes(BeforeLastStep(line)) :
                \A b \in TiedAxes(BeforeLastStep(line)) : a >= b}

\* The last step was taken with all three axes tied, and the voxel moved
\* along z.
C26_Witness ==
    /\ line.kind = "WalkVoxels"
    /\ line.out # << >>
    /\ TiedAxes(BeforeLastStep(line)) = {1, 2, 3}
    /\ SteppedAxes(line) = {3}

\* The row of an emitted item: its y in the transformed space.
Row(run, i) ==
    IF run.self.steep THEN run.out[i][1][1] ELSE run.out[i][1][2]

\* floor(y) of a finite y
FloorOf(y) == y.n \div y.d

\* Both ends have whole coordinates, and the segment is neither horizontal
\* nor vertical.
IntegerEnds ==
    /\ start[1] % unit = 0
    /\ start[2] % unit = 0
    /\ end[1] % unit = 0
    /\ end[2] % unit = 0

NotAxisAligned == start[1] # end[1] /\ start[2] # end[2]

\* C27: for a segment with whole ends that is not axis-aligned, also one
\* reaching negative coordinates, XiaolinWu emits in every column x first the
\* pixel (x, floor(Y)) with the weight 1 - frac(Y) and, when frac(Y) > 0, next
\* the pixel (x, floor(Y) + 1) with the weight frac(Y), for the line value Y
\* of the column; it emits no pixel of another row for the column.
C27_XiaolinWuRows ==
    (line.kind = "XiaolinWu" /\ IntegerEnds /\ NotAxisAligned) =>
        \A i \in 1 .. Len(line.out) :
            LET Y == LineY(Column(line, i) - Round(FirstEnd[1], unit))
                first == i = 1 \/ Column(line, i - 1) # Column(line, i)
            IN  IF first
                THEN /\ Row(line, i) = FloorOf(Y)
                     /\ Weight(line, i) = OneMinus(FractionalPart(Y))
                     /\ (FractionalPart(Y).n > 0 /\ (i < Len(line.out) \/ line.done)) =>
                            /\ i < Len(line.out)
                            /\ Column(line, i + 1) = Column(line, i)
                ELSE /\ FractionalPart(Y).n > 0
                     /\ Row(line, i) = FloorOf(Y) + 1
                     /\ Weight(line, i) = FractionalPart(Y)
                     /\ i = 2 \/ Column(line, i - 2) # Column(line, i)

\* The pixels a finished or unfinished run emitted so far.
Pixels(run) == {run.out[i][1] : i \in 1 .. Len(run.out)}

Min(a, b) == IF a < b THEN a ELSE b

\* C28: for an axis-aligned segment with whole ends XiaolinWu emits only
\* pixels of the segment, each with the weight 1: for a horizontal segment
\* every pixel has the y of start and the pixels cover the x from the smaller
\* to the larger end; likewise for a vertical segment with the x of start.
C28_XiaolinWuAxisAligned ==
    (line.kind = "XiaolinWu" /\ IntegerEnds) =>
        /\ start[2] = end[2] =>
              /\ \A i \in 1 .. Len(line.out) :
                    /\ line.out[i][1][2] = start[2] \div unit
                    /\ Weight(line, i) = Fraction(1, 1)
              /\ line.done =>
                    Pixels(line) =
                        {<< x, start[2] \div unit >> :
                            x \in Min(start[1], end[1]) \div unit .. Max(start[1], end[1]) \div unit}
        /\ start[1] = end[1] =>
              /\ \A i \in 1 .. Len(line.out) :
                    /\ line.out[i][1][1] = start[1] \div unit
                    /\ Weight(line, i) = Fraction(1, 1)
              /\ line.done =>
                    Pixels(line) =
                        {<< start[1] \div unit, y >> :
                            y \in Min(start[2], end[2]) \div unit .. Max(start[2], end[2]) \div unit}

\* The number of rings (sets of 4 quadrants) a run has begun.
Rings(run) == (Len(run.out) + 3) \div 4

\* The offset computed for the k-th ring: the first quadrant's point of the
\* ring, relative to the center.
RingOffset(run, k) == Offset(run.out[4 * (k - 1) + 1])

RingOffsets(run) == {RingOffset(run, k) : k \in 1 .. Rings(run)}

\* p comes before q when the offsets are ordered by y, then by descending x.
Before(p, q) == p[2] < q[2] \/ (p[2] = q[2] /\ p[1] > q[1])

\* C29: for radii >= 1, the first-quadrant offsets of BresenhamEllipse,
\* ordered by y and then by descending x, run from (radius_x, 0) to
\* (0, radius_y), and consecutive offsets differ by at most 1 in each
\* coordinate, also across the junction of the two regions.
C29_EllipseChain ==
    (other.kind = "BresenhamEllipse" /\ other.done /\ end[1] >= 1 /\ end[2] >= 1) =>
        LET S == RingOffsets(other)
        IN  /\ << end[1], 0 >> \in S
            /\ << 0, end[2] >> \in S
            /\ \A p \in S :
                  /\ p = << end[1], 0 >> \/ Before(<< end[1], 0 >>, p)
                  /\ p = << 0, end[2] >> \/ Before(p, << 0, end[2] >>)
            /\ \A p \in S, q \in S :
                  (Before(p, q) /\ ~\E r \in S : Before(p, r) /\ Before(r, q)) =>
                      /\ Abs(p[1] - q[1]) <= 1
                      /\ Abs(p[2] - q[2]) <= 1

\* C30: for radii >= 1, no offset is computed for two rings of
\* BresenhamEllipse, so that the only repeated points of the output are the
\* coincident reflections within one ring whose offset has x == 0 or y == 0;
\* these are emitted as they are: the first ring yields (cx + rx, cy),
\* (cx - rx, cy), (cx - rx, cy), (cx + rx, cy).
C30_EllipseNoRepeatedOffset ==
    (other.kind = "BresenhamEllipse" /\ end[1] >= 1 /\ end[2] >= 1) =>
        /\ \A j \in 1 .. Rings(other), k \in 1 .. Rings(other) :
              j # k => RingOffset(other, j) # RingOffset(other, k)
        /\ \A i \in 1 .. Len(other.out), j \in 1 .. Len(other.out) :
              (i # j /\ other.out[i] = other.out[j]) =>
                  /\ GroupStart(i) = GroupStart(j)
                  /\ \/ Offset(other.out[GroupStart(i)])[1] = 0
                     \/ Offset(other.out[GroupStart(i)])[2] = 0
        /\ Len(other.out) >= 4 =>
              SubSeq(other.out, 1, 4) =
                  << Around(<< end[1], 0 >>), Around(<< -end[1], 0 >>),
                     Around(<< -end[1], 0 >>), Around(<< end[1], 0 >>) >>

\* The offset (a, b) = (-x, y) that a BresenhamCircle holds for its next
\* ring.
CircleOffset(self) == << -self.x, self.y >>

\* b follows a among the offsets of BresenhamCircle: a changes by 0 or -1,
\* b by 0 or +1, and one of them changes.
CircleStep(p, q) ==
    /\ q[1] - p[1] \in {0, -1}
    /\ q[2] - p[2] \in {0, 1}
    /\ q # p

\* C31: for a radius r >= 1 the offsets (a, b) = (-x, y) of the successive
\* rings of BresenhamCircle start at (r, 0); each update after a 4th
\* emission changes a by 0 or -1 and b by 0 or +1, and changes one of them;
\* next returns end-of-sequence exactly when a has reached 0, so that there
\* are at most 2r rings.
C31_CircleOffsets ==
    (line.kind = "BresenhamCircle" /\ end[1] >= 1) =>
        /\ line.out # << >> => RingOffset(line, 1) = << end[1], 0 >>
        /\ \A k \in 1 .. Rings(line) - 1 :
              CircleStep(RingOffset(line, k), RingOffset(line, k + 1))
        /\ (line.out # << >> /\ Len(line.out) % 4 = 0) =>
              CircleStep(RingOffset(line, Rings(line)), CircleOffset(line.self))
        /\ \A k \in 1 .. Rings(line) : RingOffset(line, k)[1] > 0
        /\ line.done => (line.out # << >> /\ Len(line.out) % 4 = 0 /\ line.self.x = 0)
        /\ (BresenhamCircleNext(line.self).item = None) <=> (line.self.x = 0)
        /\ Rings(line) <= 2 * end[1]

\* A finished circle of radius 3 or more whose offsets took a step in a
\* alone, a step in b alone and a step in both.
C31_Witness ==
    /\ line.kind = "BresenhamCircle"
    /\ line.done
    /\ end[1] >= 3
    /\ \E k \in 1 .. Rings(line) - 1 :
          RingOffset(line, k + 1)[2] = RingOffset(line, k)[2]
    /\ \E k \in 1 .. Rings(line) - 1 :
          RingOffset(line, k + 1)[1] = RingOffset(line, k)[1]
    /\ \E k \in 1 .. Rings(line) - 1 :
          /\ RingOffset(line, k + 1)[1] # RingOffset(line, k)[1]
          /\ RingOffset(line, k + 1)[2] # RingOffset(line, k)[2]

(***************************************************************************)
(* Specification: Bresenham::new(start, end) for points, or                *)
(* Bresenham3d::new(start, end) for voxels, collected to the end.          *)
(***************************************************************************)
InitUnitSteps ==
    /\ origin = "None"
    /\ unit = 1
    /\ other = NoRun
    /\ \/ /\ start \in Points
          /\ end \in Points
          /\ line = NewRun("Bresenham", BresenhamNew(start, end))
       \/ /\ start \in StartVoxels
          /\ end \in EndVoxels
          /\ line = NewRun("Bresenham3d", Bresenham3dNew(start, end))

SpecUnitSteps == InitUnitSteps /\ [][NextBresenham \/ NextBresenham3d]_vars

\* The largest |delta| of the axes of the segment from start to end.
LongestDelta ==
    CHOOSE m \in {Abs(end[a] - start[a]) : a \in DOMAIN start} :
        \A a \in DOMAIN start : Abs(end[a] - start[a]) <= m

\* C32: in the sequences Bresenham and Bresenham3d emit, two consecutive
\* points differ by at most 1 in each axis, and the coordinate along an axis
\* of largest |delta| changes by exactly 1 toward the end at every step; so
\* no point is emitted twice.
C32_UnitSteps ==
    line.kind \in {"Bresenham", "Bresenham3d"} =>
        /\ \A i \in 1 .. Len(line.out) - 1 : \A a \in DOMAIN start :
              /\ Abs(line.out[i + 1][a] - line.out[i][a]) <= 1
              /\ Abs(end[a] - start[a]) = LongestDelta =>
                    line.out[i + 1][a] - line.out[i][a] = Signum(end[a] - start[a])
        /\ \A i \in 1 .. Len(line.out), j \in 1 .. Len(line.out) :
              i # j => line.out[i] # line.out[j]

\* A finished Bresenham3d run of several steps whose longest axis is y and
\* runs downwards, while x runs upwards and z does not move at every step.
C32_Witness ==
    /\ line.kind = "Bresenham3d"
    /\ line.done
    /\ end[2] - start[2] = -LongestDelta
    /\ end[1] > start[1]
    /\ LongestDelta >= 3
    /\ \E i \in 1 .. Len(line.out) - 1 : line.out[i + 1][3] = line.out[i][3]
    /\ \E i \in 1 .. Len(line.out) - 1 : line.out[i + 1][3] # line.out[i][3]

\* The step counters (ix, iy) of a Supercover when it emitted the point p:
\* the steps made along each axis since start.
CountersAt(p) == << Abs(p[1] - start[1]), Abs(p[2] - start[2]) >>

\* (2*ix+1)*ny == (2*iy+1)*nx for the counters at the point p
ExactTie(p) ==
    (2 * CountersAt(p)[1] + 1) * Abs(end[2] - start[2]) =
        (2 * CountersAt(p)[2] + 1) * Abs(end[1] - start[1])

\* The steps of a run that were taken at an exact tie.
TieSteps(run) == {i \in 1 .. Len(run.out) - 1 : ExactTie(run.out[i])}

\* C33: Supercover emits start first and end last; every step is a unit
\* step along one axis or a diagonal step that changes both axes by 1, and
\* it is diagonal exactly when (2*ix+1)*ny == (2*iy+1)*nx for the current
\* step counters; the number of emitted points is nx+ny+1 minus the number
\* of ties.
C33_SupercoverSteps ==
    line.kind = "Supercover" =>
        /\ line.out # << >> => line.out[1] = start
        /\ line.done =>
              /\ line.out # << >>
              /\ line.out[Len(line.out)] = end
              /\ Len(line.out) =
                    Abs(end[1] - start[1]) + Abs(end[2] - start[2]) + 1
                        - Cardinality(TieSteps(line))
        /\ \A i \in 1 .. Len(line.out) - 1 :
              LET mx == Abs(line.out[i + 1][1] - line.out[i][1])
                  my == Abs(line.out[i + 1][2] - line.out[i][2])
              IN  /\ mx <= 1
                  /\ my <= 1
                  /\ mx + my >= 1
                  /\ (mx = 1 /\ my = 1) <=> ExactTie(line.out[i])

\* A finished run with a diagonal step between steps along x and along y.
C33_Witness ==
    /\ line.kind = "Supercover"
    /\ line.done
    /\ TieSteps(line) # {}
    /\ \E i \in 1 .. Len(line.out) - 1 : line.out[i + 1][1] = line.out[i][1]
    /\ \E i \in 1 .. Len(line.out) - 1 : line.out[i + 1][2] = line.out[i][2]
    /\ end[1] < start[1]

(***************************************************************************)
(* bresenham_3d.rs over a signed integer type T of Bits bits.  An          *)
(* operation whose result is outside T panics in a build with overflow     *)
(* checks and wraps in a build without them.  Each operation is computed   *)
(* exactly and then wrapped; `overflowed` records that some result was     *)
(* outside T.                                                              *)
(***************************************************************************)
MinT == -(2 ^ (Bits - 1))

MaxT == 2 ^ (Bits - 1) - 1

InT(v) == MinT <= v /\ v <= MaxT

Wrap(v) == ((v - MinT) % (2 ^ Bits)) + MinT

Bresenham3dNewT(s, e) ==
    LET dx == e[1] - s[1]
        dy == e[2] - s[2]
        dz == e[3] - s[3]
        delta_x == Wrap(dx)
        delta_y == Wrap(dy)
        delta_z == Wrap(dz)
        len_x == Wrap(Abs(delta_x))
        len_y == Wrap(Abs(delta_y))
        len_z == Wrap(Abs(delta_z))
        longest == Max(len_x, Max(len_y, len_z))
        \* the division truncates towards zero
        half == IF longest >= 0 THEN longest \div 2 ELSE -((-longest) \div 2)
    IN  [len_x |-> len_x, len_y |-> len_y, len_z |-> len_z, longest |-> longest,
         count |-> longest,
         err_x |-> half, err_y |-> half, err_z |-> half,
         sign_x |-> Signum(delta_x), sign_y |-> Signum(delta_y),
         sign_z |-> Signum(delta_z),
         voxel |-> s,
         overflowed |-> \/ ~InT(dx) \/ ~InT(dy) \/ ~InT(dz)
                        \/ ~InT(Abs(delta_x)) \/ ~InT(Abs(delta_y)) \/ ~InT(Abs(delta_z))]

Bresenham3dNextT(self) ==
    IF self.count >= 0
    THEN LET count == self.count - 1
             ex == self.err_x - self.len_x
             ey == self.err_y - self.len_y
             ez == self.err_z - self.len_z
             stepx == Wrap(ex) < 0
             stepy == Wrap(ey) < 0
             stepz == Wrap(ez) < 0
             ex2 == IF stepx THEN Wrap(ex) + self.longest ELSE Wrap(ex)
             ey2 == IF stepy THEN Wrap(ey) + self.longest ELSE Wrap(ey)
             ez2 == IF stepz THEN Wrap(ez) + self.longest ELSE Wrap(ez)
             vx == IF stepx THEN self.voxel[1] + self.sign_x ELSE self.voxel[1]
             vy == IF stepy THEN self.voxel[2] + self.sign_y ELSE self.voxel[2]
             vz == IF stepz THEN self.voxel[3] + self.sign_z ELSE self.voxel[3]
         IN  [self |-> [self EXCEPT
                  !.count = Wrap(count),
                  !.err_x = Wrap(ex2),
                  !.err_y = Wrap(ey2),
                  !.err_z = Wrap(ez2),
                  !.voxel = << Wrap(vx), Wrap(vy), Wrap(vz) >>,
                  !.overflowed =
                      \E v \in {count, ex, ey, ez, ex2, ey2, ez2, vx, vy, vz} : ~InT(v)],
              item |-> Some(self.voxel)]
    ELSE [self |-> self, item |-> None]

(***************************************************************************)
(* Specification: Bresenham3d::<T>::new(start, end) collected to the end,  *)
(* for coordinates at and near the ends of T and around 0 whose            *)
(* differences are in T.  A call in which an operation overflows either    *)
(* panics, which ends the run, or goes on with the wrapped values.         *)
(***************************************************************************)
EdgeValues == {MinT, -1, 0, 1, MaxT}

EdgeVoxels == EdgeValues \X EdgeValues \X EdgeValues

Panicked(run) == [run EXCEPT !.self.overflowed = TRUE, !.done = TRUE]

InitBresenham3dT ==
    /\ start \in EdgeVoxels
    /\ end \in EdgeVoxels
    /\ \A a \in 1 .. 3 : InT(end[a] - start[a])
    /\ origin = "None"
    /\ unit = 1
    /\ other = NoRun
    /\ LET run == NewRun("Bresenham3dT", Bresenham3dNewT(start, end))
       IN  \/ line = run
           \/ run.self.overflowed /\ line = Panicked(run)

NextBresenham3dT ==
    /\ line.kind = "Bresenham3dT"
    /\ ~line.done
    /\ LET r == Bresenham3dNextT(line.self)
       IN  \/ line' = Pull(line, [r EXCEPT !.self.overflowed = @ \/ line.self.overflowed])
           \/ r.self.overflowed /\ line' = Panicked(line)
    /\ UNCHANGED <<start, end, origin, unit, other>>

SpecBresenham3dT == InitBresenham3dT /\ [][NextBresenham3dT]_vars

\* C34: for start and end in T whose differences per axis are in T, no
\* operation of Bresenham3d::new or of a next() call up to the one that
\* returns end-of-sequence produces a value outside T, also when an end
\* coordinate is the minimum or the maximum of T.
C34_Bresenham3dNoOverflow ==
    line.kind = "Bresenham3dT" => ~line.self.overflowed

(***************************************************************************)
(* Steps around a traversal: steps.rs with the traversal of a run as the   *)
(* inner iterator.                                                         *)
(***************************************************************************)
StepsAroundNew(run) ==
    LET first == IteratorOfRunNext(run)
    IN  [iterator |-> [kind |-> run.kind, self |-> first.self], prev |-> first.item]

StepsAroundNext(self) ==
    LET next == IteratorOfRunNext(self.iterator)
        advanced == [self EXCEPT !.iterator.self = next.self]
    IN  IF next.item = None \/ self.prev = None
        THEN [self |-> advanced, item |-> None]
        ELSE [self |-> [advanced EXCEPT !.prev = next.item],
              item |-> Some(<< self.prev[1], next.item[1] >>)]

\* next() of the run: of the traversal, or of the Steps around it.
RunNext(run) ==
    IF run.kind = "Steps" THEN StepsAroundNext(run.self) ELSE IteratorOfRunNext(run)

(***************************************************************************)
(* Specification: a traversal, or Steps around it, collected to the end    *)
(* and then called MaxAfter more times; `after` counts the calls made      *)
(* after the one that returned None.                                       *)
(***************************************************************************)
NearPoints == (0 .. MaxStart3) \X (0 .. MaxStart3)

\* The traversals that start at a point of `points` or a voxel of `voxels`.
TraversalsFrom(points, voxels) ==
    {NewRun("Bresenham", BresenhamNew(s, e)) : s \in points, e \in Points}
        \cup {NewRun("WalkGrid", WalkGridNew(s, e)) : s \in points, e \in Points}
        \cup {NewRun("Supercover", SupercoverNew(s, e)) : s \in points, e \in Points}
        \cup {NewRun("XiaolinWu", XiaolinWuNew(s, e, Denom)) : s \in points, e \in Points}
        \cup {NewRun("Midpoint", MidpointNew(s, e, o, 1)) :
                 s \in points, e \in Points, o \in BOOLEAN}
        \cup {NewRun("Bresenham3d", Bresenham3dNew(s, e)) :
                 s \in voxels, e \in EndVoxels}
        \cup {NewRun("WalkVoxels", WalkVoxelsNew(s, e, o, Denom)) :
                 s \in {<< v[1], v[2], 0 >> : v \in voxels}, e \in EndVoxels,
                 o \in {"Corner", "Center"}}
        \cup {NewRun("BresenhamCircle", BresenhamCircleNew(c[1], c[2], r[1])) :
                 c \in Centers, r \in Radii}
        \cup {NewRun("BresenhamEllipse", BresenhamEllipseNew(c[1], c[2], r[1], r[2])) :
                 c \in Centers, r \in Radii}

InitExhausted ==
    /\ start = << >>
    /\ end = << >>
    /\ origin = "None"
    /\ unit = 1
    /\ other = NoRun
    /\ \E run \in TraversalsFrom(NearPoints, StartVoxels) :
          \/ line = [kind |-> run.kind, self |-> run.self, out |-> << >>,
                     done |-> FALSE, after |-> 0]
          \/ line = [kind |-> "Steps", self |-> StepsAroundNew(run), out |-> << >>,
                     done |-> FALSE, after |-> 0]

NextExhausted ==
    /\ "after" \in DOMAIN line
    /\ line.after < MaxAfter
    /\ Len(line.out) < MaxEmitted
    /\ line' = [Pull(line, RunNext(line)) EXCEPT
                   !.after = IF line.done THEN @ + 1 ELSE @]
    /\ UNCHANGED <<start, end, origin, unit, other>>

SpecExhausted == InitExhausted /\ [][NextExhausted]_vars

\* C35: once next() has returned end-of-sequence, every later next() call
\* returns end-of-sequence and leaves the state of the traversal unchanged;
\* for each traversal type and for Steps around each of them.
C35_ExhaustionPermanent ==
    ("after" \in DOMAIN line /\ line.done) =>
        RunNext(line) = [self |-> line.self, item |-> None]

\* Steps around a traversal that yielded several pairs was called MaxAfter
\* more times after its first None.
C35_Witness ==
    /\ "after" \in DOMAIN line
    /\ line.kind = "Steps"
    /\ line.done
    /\ line.after = MaxAfter
    /\ Len(line.out) >= 3

\* The squared distance of an emitted point from the center `start`.
SquaredDistance(p) ==
    (p[1] - start[1]) * (p[1] - start[1]) + (p[2] - start[2]) * (p[2] - start[2])

\* C36: for a radius r >= 1, every point p that BresenhamCircle emits has
\* (r-1)^2 < d2 < (r+1)^2 for its squared distance d2 from the center, and
\* the four axis points (cx+r, cy), (cx, cy+r), (cx-r, cy), (cx, cy-r) are
\* all emitted.
C36_CircleDistance ==
    (line.kind = "BresenhamCircle" /\ end[1] >= 1) =>
        /\ \A i \in 1 .. Len(line.out) :
              /\ (end[1] - 1) * (end[1] - 1) < SquaredDistance(line.out[i])
              /\ SquaredDistance(line.out[i]) < (end[1] + 1) * (end[1] + 1)
        /\ line.done =>
              \A d \in {<< end[1], 0 >>, << 0, end[1] >>, << -end[1], 0 >>, << 0, -end[1] >>} :
                  \E i \in 1 .. Len(line.out) : line.out[i] = Around(d)

\* A finished circle of radius 3 or more about a center off the origin with
\* a point off the axes and off the diagonals.
C36_Witness ==
    /\ line.kind = "BresenhamCircle"
    /\ line.done
    /\ end[1] >= 3
    /\ start # << 0, 0 >>
    /\ \E i \in 1 .. Len(line.out) :
          /\ Offset(line.out[i])[1] # 0
          /\ Offset(line.out[i])[2] # 0
          /\ Abs(Offset(line.out[i])[1]) # Abs(Offset(line.out[i])[2])

\* C37: for a radius r >= 1, the points BresenhamCircle emits are pairwise
\* distinct: no point is emitted twice, within a ring of 4 or across rings
\* and quadrants.
C37_CircleDistinct ==
    (line.kind = "BresenhamCircle" /\ end[1] >= 1) =>
        \A i \in 1 .. Len(line.out), j \in 1 .. Len(line.out) :
            i # j => line.out[i] # line.out[j]

\* A finished circle of several rings.
C37_Witness ==
    /\ line.kind = "BresenhamCircle"
    /\ line.done
    /\ end[1] >= 2
    /\ Rings(line) >= 3

\* The sequence s of points with one point inserted before every diagonal
\* step: in the space of the octant o, before a point (x, y) reached from
\* (x-1, y-1) the corner (x-1, y).
RECURSIVE WithCorners(_, _)
WithCorners(o, s) ==
    IF Len(s) <= 1 THEN s
    ELSE LET p == to_octant(o, s[1])
             q == to_octant(o, s[2])
         IN  IF q = << p[1] + 1, p[2] + 1 >>
             THEN << s[1], from_octant(o, << q[1] - 1, q[2] >>) >> \o WithCorners(o, Tail(s))
             ELSE << s[1] >> \o WithCorners(o, Tail(s))

\* C38: for integer-valued start and end, the sequence Midpoint emits with
\* orthogonal = true is the sequence it emits with orthogonal = false with
\* one point inserted before every diagonal (NE) step: before a normalized
\* point (x, y) reached from (x-1, y-1) the corner (x-1, y); without the
\* inserted points it is the non-orthogonal sequence.
C38_OrthogonalInsertsCorners ==
    (line.kind = "Midpoint" /\ other.kind = "Midpoint" /\ line.done /\ other.done
         /\ IntegerValued) =>
        /\ other.self.octant = line.self.octant
        /\ other.out = WithCorners(line.self.octant, line.out)
        /\ \A i \in 1 .. Len(line.out) - 1 :
              LET p == to_octant(line.self.octant, line.out[i])
                  q == to_octant(line.self.octant, line.out[i + 1])
              IN  q = << p[1] + 1, p[2] >> \/ q = << p[1] + 1, p[2] + 1 >>

\* Both modes are finished for a segment outside the first octant with a
\* diagonal step and a straight step.
C38_Witness ==
    /\ line.kind = "Midpoint"
    /\ other.kind = "Midpoint"
    /\ line.done
    /\ other.done
    /\ IntegerValued
    /\ line.self.octant # 0
    /\ Len(other.out) > Len(line.out)
    /\ Len(other.out) < 2 * Len(line.out) - 1

=============================================================================
